---------------------------- MODULE Spec2Model ----------------------------
(***************************************************************************)
(* A model of spotcli: the command line front end (spotcli/cli.py), the    *)
(* task engine (spotcli/configuration/tasks.py), the configuration loader  *)
(* (spotcli/configuration/configuration.py) and target resolution          *)
(* (spotcli/utils/elastigroup.py, spotcli/utils/filter.py).                *)
(*                                                                         *)
(* Python strings whose characters matter are sequences of one-character   *)
(* strings; a Python value whose type matters is a record tagged with its  *)
(* type.                                                                   *)
(***************************************************************************)
EXTENDS Integers, Sequences, FiniteSets, Bags, TLC

VARIABLES
    cmd,          \* the CLI command of this invocation
    auto_approve, \* the --auto-approve flag
    tasks,        \* the Tasks to run: [kind, ntargets, param, processes]
    pc,           \* position of the main thread
    approval,     \* "none" | "auto" | "yes" | "no"
    k,            \* Scenario.run: index of the Task being run
    started,      \* Task.run: number of threads of Task k already started
    joined,       \* Task.run: number of threads of Task k already joined
    threads,      \* per Task, per unit of work: the state of its thread
    pool,         \* the threads of a Task with more units than PARALLEL_THREADS: how many are where
    hung,         \* targets whose remote calls never return
    remoteGroups, \* the remote groups the command's patterns match, by target
    handles,      \* per TargetList, per target: Elastigroup._group_data of the handle
    issued,       \* the remote calls the main thread has issued, in order
    escaped,      \* the exception that ended the command, if any
    statusArgs,   \* status: [ntargets, show_processes]
    config,       \* the configuration as read from the files
    request,      \* the command line: [cmd, scenario, kind]
    cpc,          \* position of the invocation in loading its configuration
    exitCode,     \* the status the process ended with (-1: still running)
    errors,       \* the exceptions raised while the configuration was built
    constructed,  \* the outcome of every Task(kind=...) construction
    loaded,       \* what the loader returned: [sources, scenarios]
    \* target resolution (configuration/tasks.py TargetList, utils/elastigroup.py find)
    remote,       \* the groups of the account, as get_elastigroups() lists them
    elastigroups, \* Elastigroup._elastigroups, the class-level name -> id directory
    aliases,      \* TargetList.aliases: alias name -> Alias
    targets,      \* TargetList.targets: the token structure given to the list
    query,        \* the patterns reduce() handed to Elastigroup.find
    resolved,     \* TargetList._targets: the handles, in list order
    rexc,         \* the exception the data property raised, if any
    rpc,          \* position of the resolution: start, resolved, raised, idle
    listCalls,    \* number of get_elastigroups() calls made so far, failed ones included
    impl,         \* which TargetList resolves: "cli" (configuration/tasks.py) or "legacy" (tasks.py)
    listed,       \* what the first answered get_elastigroups() call returned
    fexc,         \* the exception raised inside find (listing or filter), if any
    changes,      \* number of changes of the remote set of groups so far
    lists,        \* number of TargetLists the process has made so far
    \* spotcli.utils.filter applied to candidates and queries
    fC,           \* items: the candidate names
    fQ,           \* query: the list of patterns
    fOut,         \* outcome of filter(items, query)
    fParts,       \* outcome of filter(items, [q]) for each q of the query
    fpc,          \* start, done, idle
    \* one Elastigroup handle and the remote group behind it (utils/elastigroup.py)
    gRemote,      \* the group as the remote service holds it
    gCache,       \* Elastigroup._group_data, the cached descriptor
    gFirst,       \* what the first get_elastigroup() call of the handle returned
    gFetches,     \* number of get_elastigroup() calls made so far
    gOp,          \* the last operation called on the handle, with its arguments
    gCalls,       \* the remote calls that operation issued, in order
    gRet,         \* what that operation returned or raised
    gOps,         \* number of operations called so far
    \* reduce() of TargetList.data, one step of its loops at a time
    xFrames,      \* the frames in use when data calls reduce()
    xStack,       \* the calls of reduce() in progress: the items each has left
    xResult,      \* the result list all the calls append to
    xpc,          \* run, done (reduce returned), raised (RecursionError), idle
    \* the units of one SuspendTask that share one Elastigroup handle
    units         \* per unit: its process and the position of its thread

runVars == <<cmd, auto_approve, tasks, pc, approval, k, started, joined, threads, pool, hung,
             remoteGroups, handles, issued, escaped, statusArgs>>

cfgVars == <<config, request, cpc, exitCode, errors, constructed, loaded>>

resVars == <<remote, elastigroups, aliases, targets, query, resolved, rexc, rpc, listCalls,
             impl, listed, fexc, changes, lists>>

fltVars == <<fC, fQ, fOut, fParts, fpc>>

grpVars == <<gRemote, gCache, gFirst, gFetches, gOp, gCalls, gRet, gOps>>

expVars == <<xFrames, xStack, xResult, xpc>>

rceVars == <<units>>

vars == <<runVars, cfgVars, resVars, fltVars, grpVars, expVars, rceVars>>

-----------------------------------------------------------------------------
(* Bounds of the model. *)

MaxTargets == 2

-----------------------------------------------------------------------------
(* Program constants. *)

PARALLEL_THREADS == 32

(* ElastigroupProcess: the names of the enumeration's members. *)
ElastigroupProcess ==
    {"AUTO_SCALE", "AUTO_HEALING", "OUT_OF_STRATEGY", "PREVENTIVE_REPLACEMENT",
     "REVERT_PREFERRED", "SCHEDULING", "AUTO_SCALE_DOWN", "AUTO_SCALE_UP"}

-----------------------------------------------------------------------------
(* A Python call ends by returning a value or by raising an exception;     *)
(* sys.exit(n) raises SystemExit(n).                                       *)

NoExc == [type |-> "none", code |-> 0]
SystemExit(code) == [type |-> "SystemExit", code |-> code]
PyExc(type) == [type |-> type, code |-> 1]

-----------------------------------------------------------------------------
(* Python values used as Task parameters. *)

PyStr(chars) == [py |-> "str", text |-> chars]
PyInt(digits) == [py |-> "int", text |-> digits]

(* str(x): a str is itself, an int is its decimal digits. *)
Str(x) == x.text

(* '%' in s *)
HasPercent(s) == \E i \in 1..Len(s) : s[i] = "%"

(* The expression of the success message in work():                        *)
(*   amount if '%' in str(amount) else amount + ' instances'               *)
(* int + str raises TypeError.                                             *)
FormatAmount(x) ==
    IF HasPercent(Str(x))
    THEN [raised |-> FALSE, text |-> Str(x)]
    ELSE IF x.py = "str"
         THEN [raised |-> FALSE,
               text |-> x.text \o <<" ", "i", "n", "s", "t", "a", "n", "c", "e", "s">>]
         ELSE [raised |-> TRUE, text |-> <<>>]


-----------------------------------------------------------------------------
(* Tasks and their units of work. *)

TaskKinds == {"roll", "upscale", "downscale", "suspend", "unsuspend"}

ProcessTaskKinds == {"suspend", "unsuspend"}

(* The nested loops of SuspendTask.run / UnsuspendTask.run: for target in  *)
(* self.targets: for process in self.processes (target-major order).       *)
ProcessUnits(ntargets, processes) ==
    [i \in 1..(ntargets * Len(processes)) |->
        [target  |-> ((i - 1) \div Len(processes)) + 1,
         process |-> processes[((i - 1) % Len(processes)) + 1]]]

(* The loop of RollTask.run / UpscaleTask.run / DownscaleTask.run: for     *)
(* target in self.targets.                                                 *)
TargetUnits(ntargets) ==
    [i \in 1..ntargets |-> [target |-> i, process |-> "-"]]

Units(task) ==
    IF task.kind \in ProcessTaskKinds
    THEN ProcessUnits(task.ntargets, task.processes)
    ELSE TargetUnits(task.ntargets)

(* The thread of a unit: where it is, how often it invoked the action, how *)
(* the action ended, what work() reported, the remote calls the action     *)
(* issued and the exception it ended with.                                  *)
NewThread ==
    [st |-> "new", invoked |-> 0, result |-> "none", report |-> "none",
     calls |-> <<>>, exc |-> NoExc]

(* work() of SuspendTask / UnsuspendTask: ElastigroupProcess[process] is   *)
(* looked up before the try, so a KeyError ends the thread; otherwise the  *)
(* action is invoked once and its outcome reported.                        *)
ProcessWork(process, raised) ==
    IF process \notin ElastigroupProcess
    THEN [st |-> "crashed", invoked |-> 0, result |-> "none", report |-> "none"]
    ELSE [st |-> "finished", invoked |-> 1,
          result |-> IF raised THEN "raised" ELSE "returned",
          report |-> IF raised THEN "failed" ELSE "ok"]

(* work() of RollTask / UpscaleTask / DownscaleTask: the action is invoked *)
(* once inside the try; the success message is formatted inside the same   *)
(* try, so an exception of the formatting is reported as a failure too.    *)
AmountWork(param, raised) ==
    [st |-> "finished", invoked |-> 1,
     result |-> IF raised THEN "raised" ELSE "returned",
     report |-> IF raised \/ FormatAmount(param).raised THEN "failed" ELSE "ok"]

(* work() from its first line to its return, given how the action ended. *)
WorkOutcome(task, unit, raised) ==
    IF task.kind \in ProcessTaskKinds
    THEN ProcessWork(unit.process, raised)
    ELSE AmountWork(task.param, raised)

(* Variant of join() that returns only for a thread whose work() returned. *)
JoinReadyFinishedOnly(thread) == thread.st = "finished"

(* Mutant: join() returns without waiting for the thread. *)
JoinReadyNoWait(thread) == TRUE

(* The thread has run to its end: work() returned, or an exception ended it. *)
Terminated(thread) == thread.st \in {"finished", "crashed"}

(* thread.join() returns once the thread has terminated. *)
JoinReady(thread) == thread.st \in {"finished", "crashed"}

(* Scenario.run: for task in self.tasks: task.run().  The position after   *)
(* Task i has returned.                                                    *)
AfterTask(i, n) ==
    IF i < n THEN [pc |-> "run", k |-> i + 1] ELSE [pc |-> "done", k |-> i]

(* Mutant: the operator's answer is ignored. *)
ApprovedAlways(auto, answer) == TRUE

(* auto_approve or click.confirm("Continue?", abort=True): click.confirm   *)
(* raises Abort on a negative answer.                                      *)
Approved(auto, answer) == auto \/ answer

(* No target list is being resolved in this specification. *)
ResIdle ==
    /\ remote = <<>>
    /\ elastigroups = [set |-> FALSE, map |-> <<>>]
    /\ aliases = <<>>
    /\ targets = [str |-> FALSE, s |-> <<>>, kids |-> <<>>]
    /\ query = <<>>
    /\ resolved = <<>>
    /\ rexc = [type |-> "none", code |-> 0]
    /\ rpc = "idle"
    /\ listCalls = 0
    /\ impl = "cli"
    /\ listed = <<>>
    /\ fexc = [type |-> "none", code |-> 0]
    /\ changes = 0
    /\ lists = 0

(* filter is not being applied in this specification. *)
FltIdle ==
    /\ fC = {}
    /\ fQ = <<>>
    /\ fOut = [exc |-> [type |-> "none", code |-> 0], ret |-> {}]
    /\ fParts = <<>>
    /\ fpc = "idle"

(* No Elastigroup handle is in use in this specification. *)
GrpIdle ==
    /\ gRemote = [capacity |-> [minimum |-> 0, maximum |-> 0, target |-> 0],
                  down |-> <<>>, up |-> <<>>,
                  suspended_processes |-> {}, suspended_policies |-> {}]
    /\ gCache = [set |-> FALSE, data |-> <<>>]
    /\ gFirst = [set |-> FALSE, data |-> <<>>]
    /\ gFetches = 0
    /\ gOp = [name |-> "none"]
    /\ gCalls = <<>>
    /\ gRet = [exc |-> [type |-> "none", code |-> 0], value |-> <<>>]
    /\ gOps = 0

(* No reduce() is being stepped through in this specification. *)
ExpIdle ==
    /\ xFrames = 0
    /\ xStack = <<>>
    /\ xResult = <<>>
    /\ xpc = "idle"

(* No SuspendTask shares a handle between threads in this specification. *)
RceIdle == units = <<>>

(* The task engine is idle in this specification. *)
RunIdle ==
    /\ cmd = "none"
    /\ auto_approve = FALSE
    /\ tasks = <<>>
    /\ pc = "idle"
    /\ approval = "none"
    /\ k = 1
    /\ started = 0
    /\ joined = 0
    /\ threads = <<>>
    /\ pool = EmptyBag
    /\ hung = {}
    /\ remoteGroups = <<>>
    /\ handles = <<>>
    /\ issued = <<>>
    /\ escaped = NoExc
    /\ statusArgs = [ntargets |-> 0, show_processes |-> FALSE]

(* The configuration loader is idle in this specification. *)
CfgIdle ==
    /\ config = [fileExists |-> TRUE, providers |-> <<>>, sources |-> <<>>,
                 scenarios |-> <<>>, aliases |-> <<>>]
    /\ request = [cmd |-> "none", scenario |-> "", kind |-> "", filter |-> <<>>]
    /\ cpc = "idle"
    /\ exitCode = -1
    /\ errors = {}
    /\ constructed = {}
    /\ loaded = [sources |-> <<>>, scenarios |-> <<>>]


-----------------------------------------------------------------------------
(* The configuration loader. *)

(* Provider.providers, filled by @Provider.register. *)
ProviderRegistry ==
    [file |-> "FileProvider", consul |-> "ConsulProvider",
     s3 |-> "S3Provider", spot |-> "SpotProvider"]

(* Task.kinds, filled by @Task.register. *)
TaskRegistry ==
    [roll |-> "RollTask", upscale |-> "UpscaleTask", downscale |-> "DownscaleTask",
     suspend |-> "SuspendTask", unsuspend |-> "UnsuspendTask"]

(* Provider.__new__ *)
ProviderNew(kind) ==
    IF kind \in DOMAIN ProviderRegistry
    THEN [cls |-> ProviderRegistry[kind], exc |-> NoExc]
    ELSE [cls |-> "none", exc |-> SystemExit(1)]

(* Mutant: an unknown kind falls back to RollTask. *)
TaskNewDefaultsToRoll(kind) ==
    IF kind \in DOMAIN TaskRegistry
    THEN [cls |-> TaskRegistry[kind], exc |-> NoExc]
    ELSE [cls |-> "RollTask", exc |-> NoExc]

(* Task.__new__ *)
TaskNew(kind) ==
    IF kind \in DOMAIN TaskRegistry
    THEN [cls |-> TaskRegistry[kind], exc |-> NoExc]
    ELSE [cls |-> "none", exc |-> SystemExit(1)]

(* Provider(name=name, **provider): __new__, then the attrs __init__ of    *)
(* the class found, which raises TypeError when a required field is not    *)
(* given.                                                                  *)
ProviderConstruct(raw) ==
    LET new == ProviderNew(raw.kind)
    IN  IF new.exc # NoExc THEN new
        ELSE IF ~raw.complete THEN [cls |-> "none", exc |-> PyExc("TypeError")]
        ELSE new

(* Task(kind=..., ...): __new__, then the attrs __init__ of the class found. *)
TaskConstruct(raw) ==
    LET new == TaskNew(raw.kind)
    IN  IF new.exc # NoExc THEN new
        ELSE IF ~raw.complete THEN [cls |-> "none", exc |-> PyExc("TypeError")]
        ELSE new

HasKey(dict, name) == \E i \in 1..Len(dict) : dict[i].name = name

(* self.providers[name] *)
ProviderClass(providers, name) ==
    providers[CHOOSE i \in 1..Len(providers) : providers[i].name = name].cls

(* What a property ending in "finally: return value" gives its caller: the *)
(* value, whatever was raised in its body.                                 *)
FinallyReturn(value, exc) == [ret |-> value, exc |-> NoExc]

(* The loop of Config.providers over providers_raw; it ends at the first   *)
(* exception.                                                              *)
RECURSIVE BuildProviders(_, _)
BuildProviders(raws, acc) ==
    IF raws = <<>> THEN [ret |-> acc, exc |-> NoExc]
    ELSE LET p == ProviderConstruct(Head(raws))
         IN  IF p.exc # NoExc THEN [ret |-> acc, exc |-> p.exc]
             ELSE BuildProviders(Tail(raws),
                                 Append(acc, [name |-> Head(raws).name, cls |-> p.cls]))

(* Config.providers *)
Providers(conf) ==
    LET body == BuildProviders(conf.providers, <<>>)
    IN  [call |-> FinallyReturn(body.ret, body.exc),
         errors |-> IF body.exc = NoExc THEN {}
                    ELSE {[in |-> "providers", exc |-> body.exc]}]

(* The loop of Config.sources; self.providers[...] raises KeyError for a   *)
(* provider that is not there, and the handler of KeyError calls           *)
(* sys.exit(1).                                                            *)
RECURSIVE BuildSources(_, _, _)
BuildSources(raws, providers, acc) ==
    IF raws = <<>> THEN [ret |-> acc, exc |-> NoExc]
    ELSE IF ~HasKey(providers, Head(raws).provider)
         THEN [ret |-> acc, exc |-> SystemExit(1)]
         ELSE BuildSources(Tail(raws), providers,
                           Append(acc, [provider |-> Head(raws).provider,
                                        cls |-> ProviderClass(providers, Head(raws).provider),
                                        path |-> Head(raws).path,
                                        answer |-> Head(raws).answer]))

(* Config.sources *)
Sources(conf) ==
    LET provs == Providers(conf)
        body == BuildSources(conf.sources, provs.call.ret, <<>>)
    IN  [call |-> FinallyReturn(body.ret, body.exc),
         errors |-> (IF conf.sources = <<>> THEN {} ELSE provs.errors) \cup
                    (IF body.exc = NoExc THEN {}
                     ELSE {[in |-> "sources", exc |-> body.exc]})]

(* The inner loop of Config.scenarios over scenario["tasks"]. *)
RECURSIVE BuildTasks(_, _, _, _)
BuildTasks(raws, providers, acc, log) ==
    IF raws = <<>> THEN [ret |-> acc, exc |-> NoExc, log |-> log]
    ELSE IF ~HasKey(providers, "spot")
         THEN [ret |-> acc, exc |-> PyExc("KeyError"), log |-> log]
         ELSE LET new == TaskNew(Head(raws).kind)
                  t == TaskConstruct(Head(raws))
                  log2 == log \cup {[kind |-> Head(raws).kind, cls |-> new.cls, exc |-> new.exc]}
              IN  IF t.exc # NoExc THEN [ret |-> acc, exc |-> t.exc, log |-> log2]
                  ELSE BuildTasks(Tail(raws), providers, Append(acc, t.cls), log2)

(* The outer loop of Config.scenarios; scenario["tasks"] and               *)
(* scenario["description"] raise KeyError when the field is missing.       *)
RECURSIVE BuildScenarios(_, _, _, _)
BuildScenarios(raws, providers, acc, log) ==
    IF raws = <<>> THEN [ret |-> acc, exc |-> NoExc, log |-> log]
    ELSE IF Head(raws).fields = "no_tasks"
         THEN [ret |-> acc, exc |-> PyExc("KeyError"), log |-> log]
         ELSE LET ts == BuildTasks(Head(raws).tasks, providers, <<>>, log)
              IN  IF ts.exc # NoExc THEN [ret |-> acc, exc |-> ts.exc, log |-> ts.log]
                  ELSE IF Head(raws).fields = "no_description"
                       THEN [ret |-> acc, exc |-> PyExc("KeyError"), log |-> ts.log]
                       ELSE BuildScenarios(Tail(raws), providers,
                                Append(acc, [name |-> Head(raws).name, tasks |-> ts.ret]),
                                ts.log)

(* Config.scenarios *)
Scenarios(conf) ==
    LET provs == Providers(conf)
        body == BuildScenarios(conf.scenarios, provs.call.ret, <<>>, {})
        \* self.providers is read for the tasks of the scenarios the loop reached
        used == \E i \in 1..Len(conf.scenarios) :
                    /\ i <= Len(body.ret) + 1
                    /\ conf.scenarios[i].fields # "no_tasks"
                    /\ conf.scenarios[i].tasks # <<>>
    IN  [call |-> FinallyReturn(body.ret, body.exc),
         log |-> body.log,
         errors |-> (IF used THEN provs.errors ELSE {}) \cup
                    (IF body.exc = NoExc THEN {}
                     ELSE {[in |-> "scenarios", exc |-> body.exc]})]

(* Source.read: provider.get(path).  SpotProvider.get takes no path, so    *)
(* the call raises TypeError; the other providers call sys.exit(1) when    *)
(* the document is not there, and let any other failure (the store cannot  *)
(* be reached, the document is not YAML) propagate.                        *)
SourceRead(source) ==
    IF source.cls = "SpotProvider" THEN PyExc("TypeError")
    ELSE IF source.answer = "not_found" THEN SystemExit(1)
    ELSE IF source.answer = "unreadable" THEN PyExc("Exception")
    ELSE NoExc

(* [source.read() for source in bootstrap_config.sources]: the reads in    *)
(* order, up to the first that raises.                                     *)
RECURSIVE ReadSources(_)
ReadSources(sources) ==
    IF sources = <<>> THEN NoExc
    ELSE IF SourceRead(Head(sources)) # NoExc THEN SourceRead(Head(sources))
    ELSE ReadSources(Tail(sources))

(* load(): FileProvider.get calls sys.exit(1) when ~/.spot/config.yaml is  *)
(* not there, and SystemExit passes "except Exception"; otherwise the      *)
(* sources of the bootstrap configuration are built and read.  A           *)
(* SystemExit of a read passes the handler too, any other exception is     *)
(* answered with 'Unable to load config' and sys.exit(1).                  *)
Load(conf) ==
    IF ~conf.fileExists
    THEN [exc |-> SystemExit(1), sources |-> <<>>, errors |-> {}]
    ELSE LET src == Sources(conf)
             read == ReadSources(src.call.ret)
         IN  [exc |-> IF read = NoExc THEN NoExc
                      ELSE IF read.type = "SystemExit" THEN read ELSE SystemExit(1),
              sources |-> src.call.ret,
              errors |-> src.errors]

(* The kind cli.action is called with by roll, suspend, unsuspend and      *)
(* scale (f"{kind}scale").                                                 *)
ActionKind(command, direction) ==
    IF command = "scale"
    THEN IF direction = "up" THEN "upscale" ELSE "downscale"
    ELSE command

(* config = spotcli.configuration.load() of every command. *)
LoadConfig ==
    /\ cpc = "start"
    /\ LET l == Load(config)
       IN  /\ errors' = errors \cup l.errors
           /\ loaded' = [loaded EXCEPT !.sources = l.sources]
           /\ IF l.exc # NoExc
              THEN cpc' = "exit" /\ exitCode' = l.exc.code
              ELSE cpc' = "loaded" /\ UNCHANGED exitCode
    /\ UNCHANGED <<config, request, constructed>>
    /\ UNCHANGED <<runVars, resVars, fltVars, grpVars, expVars, rceVars>>

(* cli.run lines 113-123: s = config.scenarios[scenario]; a KeyError ends  *)
(* the command with sys.exit(1).                                           *)
RunScenario ==
    /\ cpc = "loaded"
    /\ request.cmd = "run"
    /\ LET sc == Scenarios(config)
       IN  /\ errors' = errors \cup sc.errors
           /\ constructed' = constructed \cup sc.log
           /\ loaded' = [loaded EXCEPT !.scenarios = sc.call.ret]
           /\ IF sc.call.exc # NoExc
              THEN cpc' = "exit" /\ exitCode' = sc.call.exc.code
              ELSE IF HasKey(sc.call.ret, request.scenario)
                   THEN cpc' = "continue" /\ UNCHANGED exitCode
                   ELSE cpc' = "exit" /\ exitCode' = 1
    /\ UNCHANGED <<config, request>>
    /\ UNCHANGED <<runVars, resVars, fltVars, grpVars, expVars, rceVars>>

(* cli.action lines 338-339: config.providers["spot"] (an uncaught         *)
(* KeyError ends the process with status 1), then Task(kind=action, ...).  *)
RunAction ==
    /\ cpc = "loaded"
    /\ request.cmd \in {"roll", "suspend", "unsuspend", "scale"}
    /\ LET provs == Providers(config)
           kind == ActionKind(request.cmd, request.kind)
           new == TaskNew(kind)
       IN  /\ errors' = errors \cup provs.errors
           /\ IF provs.call.exc # NoExc \/ ~HasKey(provs.call.ret, "spot")
              THEN cpc' = "exit" /\ exitCode' = 1 /\ UNCHANGED constructed
              ELSE /\ constructed' = constructed \cup
                          {[kind |-> kind, cls |-> new.cls, exc |-> new.exc]}
                   /\ IF new.exc # NoExc
                      THEN cpc' = "exit" /\ exitCode' = new.exc.code
                      ELSE cpc' = "continue" /\ UNCHANGED exitCode
    /\ UNCHANGED <<config, request, loaded>>
    /\ UNCHANGED <<runVars, resVars, fltVars, grpVars, expVars, rceVars>>

-----------------------------------------------------------------------------
(* Target resolution: TargetList.data flattens the tokens with reduce() and *)
(* hands the result to Elastigroup.find, which matches it against the       *)
(* directory with spotcli.utils.filter.  A Python string is the sequence of *)
(* its characters.                                                          *)

(* A token is a Python str or a list of tokens. *)
Leaf(s) == [str |-> TRUE, s |-> s, kids |-> <<>>]
List(kids) == [str |-> FALSE, s |-> <<>>, kids |-> kids]

(* Alias(name, targets): a UserList whose data is its target list; the     *)
(* aliases of the model have a YAML list as their value.                   *)
Alias(name, tgts) == [name |-> name, targets |-> tgts]

RECURSIVE reduce(_, _, _)
RECURSIVE ReduceItems(_, _, _)
(* The for loop of reduce(): an alias name recurses into the alias with the *)
(* same result list, another string is appended, a list is recursed into.   *)
ReduceItems(items, result, als) ==
    IF items = <<>>
      THEN result
      ELSE LET item == Head(items)
               after == IF item.str
                          THEN IF item.s \in DOMAIN als
                                 THEN reduce(List(als[item.s].targets), result, als)
                                 ELSE Append(result, item.s)
                          ELSE reduce(item, result, als)
           IN ReduceItems(Tail(items), after, als)

(* Variant of reduce that looks no name up in the alias table. *)
reduceWithoutAliases(array, result, als) ==
    ReduceItems(IF array.str THEN <<array>> ELSE array.kids, result, <<>>)

(* reduce(array, result): a str is wrapped in a list first. *)
reduce(array, result, als) ==
    ReduceItems(IF array.str THEN <<array>> ELSE array.kids, result, als)

-----------------------------------------------------------------------------
(* Python's int and str on the characters of ASCII.  A str is a sequence of *)
(* one-character strings; the characters are the printable ones of ASCII    *)
(* (the backquote has no TLA+ string) and tab, newline, form feed and       *)
(* carriage return.  An int is kept up to MaxInt.                           *)

MaxInt == 2147483646 + 1

DIGITS == {"0", "1", "2", "3", "4", "5", "6", "7", "8", "9"}

DigitChars == <<"0", "1", "2", "3", "4", "5", "6", "7", "8", "9">>

IsDigit(c) == c \in DIGITS

DigitValue(c) == (CHOOSE i \in DOMAIN DigitChars : DigitChars[i] = c) - 1

HexValue(c) ==
    IF c \in DIGITS THEN DigitValue(c)
    ELSE IF c \in {"a", "A"} THEN 10 ELSE IF c \in {"b", "B"} THEN 11
    ELSE IF c \in {"c", "C"} THEN 12 ELSE IF c \in {"d", "D"} THEN 13
    ELSE IF c \in {"e", "E"} THEN 14 ELSE 15

(* base * n + d, kept at MaxInt once it is reached. *)
Shift(n, base, d) == IF n > (MaxInt - d) \div base THEN MaxInt ELSE base * n + d

(* int(s, base) of digits: one digit after the other. *)
BaseValue(s, base) ==
    LET value[i \in 0..Len(s)] ==
            IF i = 0 THEN 0 ELSE Shift(value[i - 1], base, HexValue(s[i]))
    IN value[Len(s)]

DigitsValue(s) == BaseValue(s, 10)

(* str.strip(): the whitespace int() passes over. *)
WHITESPACE == {" ", "\t", "\n", "\r", "\f"}

Strip(s) ==
    IF \A i \in DOMAIN s : s[i] \in WHITESPACE
      THEN <<>>
      ELSE SubSeq(s,
                  CHOOSE i \in DOMAIN s :
                      s[i] \notin WHITESPACE /\ \A j \in 1..(i - 1) : s[j] \in WHITESPACE,
                  CHOOSE i \in DOMAIN s :
                      s[i] \notin WHITESPACE /\ \A j \in (i + 1)..Len(s) : s[j] \in WHITESPACE)

(* The digits of an int literal: digits with single underscores between. *)
IsDigitGroup(s) ==
    /\ s # <<>>
    /\ IsDigit(s[1])
    /\ IsDigit(s[Len(s)])
    /\ \A i \in DOMAIN s : IsDigit(s[i]) \/ s[i] = "_"
    /\ \A i \in 1..(Len(s) - 1) : ~(s[i] = "_" /\ s[i + 1] = "_")

(* int(s) for a str: whitespace around, a sign, digits with underscores    *)
(* between them; anything else raises ValueError.                          *)
IntLiteral(t) ==
    LET signed == t # <<>> /\ t[1] \in {"+", "-"}
        Value(body) ==
            IF IsDigitGroup(body)
              THEN [exc |-> NoExc,
                    value |-> IF signed /\ t[1] = "-"
                                THEN 0 - DigitsValue(SelectSeq(body, IsDigit))
                                ELSE DigitsValue(SelectSeq(body, IsDigit))]
              ELSE [exc |-> PyExc("ValueError"), value |-> 0]
    IN CHOOSE out \in {Value(body) :
                          body \in {IF signed THEN SubSeq(t, 2, Len(t)) ELSE t}} : TRUE

IntOfStr(s) == CHOOSE out \in {IntLiteral(t) : t \in {Strip(s)}} : TRUE

(* The loops of the code.  A loop is described by what it runs over, and   *)
(* what it has done so far is the accumulator acc; Pass is one pass of it, *)
(* and a pass of a loop that is done changes nothing.  The passes are      *)
(* taken sixteen at a time, one after the other.                           *)
RECURSIVE Pass(_, _), Passes(_, _, _), Inner(_, _, _), While(_, _, _)

(* One pass, or sixteen times as many passes as one level below. *)
Inner(loop, acc, level) ==
    CHOOSE out \in {IF level = 0 THEN Pass(l, a) ELSE Passes(l, a, level - 1) :
                       l \in {loop}, a \in {acc}} : TRUE

Passes(loop, acc, level) ==
    LET a1 == Inner(loop, acc, level)
        a2 == Inner(loop, a1, level)
        a3 == Inner(loop, a2, level)
        a4 == Inner(loop, a3, level)
        a5 == Inner(loop, a4, level)
        a6 == Inner(loop, a5, level)
        a7 == Inner(loop, a6, level)
        a8 == Inner(loop, a7, level)
        a9 == Inner(loop, a8, level)
        a10 == Inner(loop, a9, level)
        a11 == Inner(loop, a10, level)
        a12 == Inner(loop, a11, level)
        a13 == Inner(loop, a12, level)
        a14 == Inner(loop, a13, level)
        a15 == Inner(loop, a14, level)
        a16 == Inner(loop, a15, level)
    IN CASE a1.done -> a1
         [] a2.done -> a2
         [] a3.done -> a3
         [] a4.done -> a4
         [] a5.done -> a5
         [] a6.done -> a6
         [] a7.done -> a7
         [] a8.done -> a8
         [] a9.done -> a9
         [] a10.done -> a10
         [] a11.done -> a11
         [] a12.done -> a12
         [] a13.done -> a13
         [] a14.done -> a14
         [] a15.done -> a15
         [] OTHER -> a16

(* The loop until it is done; it is done within n passes. *)
While(loop, acc, n) ==
    Inner(loop, acc, IF n <= 16 THEN 1 ELSE IF n <= 256 THEN 2 ELSE IF n <= 4096 THEN 3
                      ELSE IF n <= 65536 THEN 4 ELSE 5)

-----------------------------------------------------------------------------
(* re.compile(pattern, re.IGNORECASE | re.ASCII) and Pattern.search of the  *)
(* standard library: the parser of re/_parser.py, the checks of             *)
(* re/_compiler.py, and a backtracking matcher that tries the ways through  *)
(* a pattern in the order the engine tries them.  A function of the         *)
(* library is written as the operators of its stages: each stage is given  *)
(* what the stages before it have read.                                     *)

Printable ==
    <<" ", "!", "\"", "#", "$", "%", "&", "'", "(", ")", "*", "+", ",", "-", ".", "/",
      "0", "1", "2", "3", "4", "5", "6", "7", "8", "9", ":", ";", "<", "=", ">", "?",
      "@", "A", "B", "C", "D", "E", "F", "G", "H", "I", "J", "K", "L", "M", "N", "O",
      "P", "Q", "R", "S", "T", "U", "V", "W", "X", "Y", "Z", "[", "\\", "]", "^", "_",
      "", "a", "b", "c", "d", "e", "f", "g", "h", "i", "j", "k", "l", "m", "n", "o",
      "p", "q", "r", "s", "t", "u", "v", "w", "x", "y", "z", "{", "|", "}", "~">>

(* The place of a character in a table, 0 for one that is not in it. *)
Index(table, c) ==
    IF c # "" /\ \E i \in DOMAIN table : table[i] = c
      THEN CHOOSE i \in DOMAIN table : table[i] = c
      ELSE 0

OrdAt(c, i) ==
    IF c = "\t" THEN 9
    ELSE IF c = "\n" THEN 10
    ELSE IF c = "\f" THEN 12
    ELSE IF c = "\r" THEN 13
    ELSE IF i = 0 THEN 128
    ELSE 31 + i

(* ord(c); a character outside the table counts as one above ASCII. *)
Ord(c) == OrdAt(c, Index(Printable, c))

SPECIAL_CHARS == {".", "\\", "[", "{", "(", ")", "*", "+", "?", "^", "$", "|"}
REPEAT_CHARS == {"*", "+", "?", "{"}
OCTDIGITS == {"0", "1", "2", "3", "4", "5", "6", "7"}
HEXDIGITS == DIGITS \cup {"a", "b", "c", "d", "e", "f", "A", "B", "C", "D", "E", "F"}
ASCIILETTERS ==
    {"a", "b", "c", "d", "e", "f", "g", "h", "i", "j", "k", "l", "m",
     "n", "o", "p", "q", "r", "s", "t", "u", "v", "w", "x", "y", "z",
     "A", "B", "C", "D", "E", "F", "G", "H", "I", "J", "K", "L", "M",
     "N", "O", "P", "Q", "R", "S", "T", "U", "V", "W", "X", "Y", "Z"}

(* FLAGS: the letters of the inline flags; TYPE_FLAGS and GLOBAL_FLAGS. *)
FLAGS == {"i", "L", "m", "s", "x", "a", "t", "u"}
TYPE_FLAGS == {"a", "L", "u"}
GLOBAL_FLAGS == {"t"}

(* The nodes of a parsed pattern. *)
Literal(c) == [op |-> "literal", c |-> c]
NotLiteral(c) == [op |-> "not_literal", c |-> c]
In(negate, set) == [op |-> "in", negate |-> negate, set |-> set]
SetLiteral(c) == [k |-> "literal", c |-> c]
SetCategory(x) == [k |-> "category", cat |-> x]
SetRange(lo, hi) == [k |-> "range", lo |-> lo, hi |-> hi]
AtCode(x) == [op |-> "at", at |-> x]
NoCode == [op |-> "none"]

(* CATEGORIES and ESCAPES *)
CategoryEscapes == {"A", "b", "B", "d", "D", "s", "S", "w", "W", "Z"}

CategoryCode(c) ==
    IF c \in {"A", "b", "B", "Z"} THEN AtCode(c) ELSE In(FALSE, <<SetCategory(c)>>)

CharEscapes == {"a", "b", "f", "n", "r", "t", "v", "\\"}

CharEscapeCode(c) ==
    IF c = "a" THEN 7 ELSE IF c = "b" THEN 8 ELSE IF c = "f" THEN 12
    ELSE IF c = "n" THEN 10 ELSE IF c = "r" THEN 13 ELSE IF c = "t" THEN 9
    ELSE IF c = "v" THEN 11 ELSE 92

(* class State *)
State(flags) ==
    [i |-> 1, err |-> "", flags |-> flags, widths |-> <<>>, names |-> {},
     lookbehindgroups |-> -1, grouprefpos |-> {}, variable |-> FALSE, repeats |-> FALSE]

Groups(st) == Len(st.widths) + 1

CheckGroup(st, gid) == gid >= 1 /\ gid < Groups(st) /\ st.widths[gid] # <<>>

CheckLookbehindGroup(st, gid) ==
    IF st.lookbehindgroups = -1 THEN ""
    ELSE IF ~CheckGroup(st, gid) THEN "cannot refer to an open group"
    ELSE IF gid >= st.lookbehindgroups
      THEN "cannot refer to group defined in the same lookbehind subpattern"
    ELSE ""

Error(st, msg) == [st EXCEPT !.err = msg]

(* A state and the code read up to it; no code with an error. *)
Coded(st, code) == [st |-> st, code |-> code]
Failed(st) == [st |-> st, code |-> NoCode]

(* class Tokenizer: a token is a character, or a backslash and the          *)
(* character after it; reading up to a backslash that ends the pattern      *)
(* raises.                                                                  *)
Tok(p, i) ==
    IF i > Len(p) THEN <<>>
    ELSE IF p[i] = "\\" THEN <<p[i], p[i + 1]>>
    ELSE <<p[i]>>

Seek(p, st, index) ==
    IF index = Len(p) /\ p[index] = "\\"
      THEN [st EXCEPT !.i = index, !.err = "bad escape (end of pattern)"]
      ELSE [st EXCEPT !.i = index]

Get(p, st) == Seek(p, st, st.i + Len(Tok(p, st.i)))

(* Tokenizer.match *)
Match(p, st, char) == Tok(p, st.i) = <<char>>

(* Tokenizer.getwhile: how many of the next n tokens are in the charset. *)
GetWhile(p, i, n, charset) ==
    CHOOSE m \in 0..n :
        /\ \A h \in 0..(m - 1) : i + h <= Len(p) /\ p[i + h] \in charset
        /\ m = n \/ i + m > Len(p) \/ p[i + m] \notin charset

(* The index is the start of a token when the reading began at from: an   *)
(* even number of backslashes lies between.                                 *)
TokStart(p, from, index) ==
    LET run == CHOOSE n \in 0..(index - from) :
                   /\ \A h \in 1..n : p[index - h] = "\\"
                   /\ n = index - from \/ p[index - n - 1] # "\\"
    IN run % 2 = 0

(* The first token at or after the position that is the character, or 0. *)
Find(p, st, char) ==
    LET found == {j \in st.i..Len(p) : p[j] = char /\ TokStart(p, st.i, j)}
    IN IF found = {} THEN 0 ELSE CHOOSE j \in found : \A h \in found : j <= h

(* Reading on to the end of the pattern meets a backslash that ends it. *)
OpenEscape(p, st) ==
    st.i <= Len(p) /\ p[Len(p)] = "\\" /\ TokStart(p, st.i, Len(p))

(* Tokenizer.getuntil *)
UntilAt(p, st, name, j) ==
    LET s1 == Seek(p, st, j + 1)
    IN IF j = 0
         THEN [st |-> Error(st, IF OpenEscape(p, st) THEN "bad escape (end of pattern)"
                                ELSE IF st.i > Len(p) THEN name
                                ELSE "missing terminator, unterminated name"),
               name |-> <<>>]
       ELSE IF s1.err # "" THEN [st |-> s1, name |-> <<>>]
       ELSE IF j = st.i THEN [st |-> Error(s1, name), name |-> <<>>]
       ELSE [st |-> s1, name |-> SubSeq(p, st.i, j - 1)]

GetUntil(p, st, terminator, name) == UntilAt(p, st, name, Find(p, st, terminator))

(* str.isidentifier on ASCII *)
IdentifierOf(name, start) ==
    /\ name # <<>>
    /\ name[1] \in start
    /\ \A i \in DOMAIN name : name[i] \in start \cup DIGITS

IsIdentifier(name) == IdentifierOf(name, ASCIILETTERS \cup {"_"})

(* \x, \u and \U followed by exactly n hexadecimal digits. *)
HexCode(st, c) ==
    IF c > 1114111 THEN Failed(Error(st, "bad escape")) ELSE Coded(st, Literal(c))

HexDigits(p, st, n, m) ==
    LET s1 == Seek(p, st, st.i + m)
    IN IF s1.err # "" THEN Failed(s1)
       ELSE IF m # n THEN Failed(Error(s1, "incomplete escape"))
       ELSE HexCode(s1, BaseValue(SubSeq(p, st.i, st.i + m - 1), 16))

HexEscape(p, st, n) == HexDigits(p, st, n, GetWhile(p, st.i, n, HEXDIGITS))

(* The names of the characters: those of the printable characters of       *)
(* ASCII, compared without regard to case.  The letters are named after     *)
(* themselves.                                                              *)
CharacterNames ==
    <<
      [name |-> <<"S", "P", "A", "C", "E">>,
       code |-> 32],
      [name |-> <<"E", "X", "C", "L", "A", "M", "A", "T", "I", "O", "N", " ", "M", "A", "R", "K">>,
       code |-> 33],
      [name |-> <<"Q", "U", "O", "T", "A", "T", "I", "O", "N", " ", "M", "A", "R", "K">>,
       code |-> 34],
      [name |-> <<"N", "U", "M", "B", "E", "R", " ", "S", "I", "G", "N">>,
       code |-> 35],
      [name |-> <<"D", "O", "L", "L", "A", "R", " ", "S", "I", "G", "N">>,
       code |-> 36],
      [name |-> <<"P", "E", "R", "C", "E", "N", "T", " ", "S", "I", "G", "N">>,
       code |-> 37],
      [name |-> <<"A", "M", "P", "E", "R", "S", "A", "N", "D">>,
       code |-> 38],
      [name |-> <<"A", "P", "O", "S", "T", "R", "O", "P", "H", "E">>,
       code |-> 39],
      [name |-> <<"L", "E", "F", "T", " ", "P", "A", "R", "E", "N", "T", "H", "E", "S", "I", "S">>,
       code |-> 40],
      [name |-> <<"R", "I", "G", "H", "T", " ", "P", "A", "R", "E", "N", "T", "H", "E", "S", "I", "S">>,
       code |-> 41],
      [name |-> <<"A", "S", "T", "E", "R", "I", "S", "K">>,
       code |-> 42],
      [name |-> <<"P", "L", "U", "S", " ", "S", "I", "G", "N">>,
       code |-> 43],
      [name |-> <<"C", "O", "M", "M", "A">>,
       code |-> 44],
      [name |-> <<"H", "Y", "P", "H", "E", "N", "-", "M", "I", "N", "U", "S">>,
       code |-> 45],
      [name |-> <<"F", "U", "L", "L", " ", "S", "T", "O", "P">>,
       code |-> 46],
      [name |-> <<"S", "O", "L", "I", "D", "U", "S">>,
       code |-> 47],
      [name |-> <<"D", "I", "G", "I", "T", " ", "Z", "E", "R", "O">>,
       code |-> 48],
      [name |-> <<"D", "I", "G", "I", "T", " ", "O", "N", "E">>,
       code |-> 49],
      [name |-> <<"D", "I", "G", "I", "T", " ", "T", "W", "O">>,
       code |-> 50],
      [name |-> <<"D", "I", "G", "I", "T", " ", "T", "H", "R", "E", "E">>,
       code |-> 51],
      [name |-> <<"D", "I", "G", "I", "T", " ", "F", "O", "U", "R">>,
       code |-> 52],
      [name |-> <<"D", "I", "G", "I", "T", " ", "F", "I", "V", "E">>,
       code |-> 53],
      [name |-> <<"D", "I", "G", "I", "T", " ", "S", "I", "X">>,
       code |-> 54],
      [name |-> <<"D", "I", "G", "I", "T", " ", "S", "E", "V", "E", "N">>,
       code |-> 55],
      [name |-> <<"D", "I", "G", "I", "T", " ", "E", "I", "G", "H", "T">>,
       code |-> 56],
      [name |-> <<"D", "I", "G", "I", "T", " ", "N", "I", "N", "E">>,
       code |-> 57],
      [name |-> <<"C", "O", "L", "O", "N">>,
       code |-> 58],
      [name |-> <<"S", "E", "M", "I", "C", "O", "L", "O", "N">>,
       code |-> 59],
      [name |-> <<"L", "E", "S", "S", "-", "T", "H", "A", "N", " ", "S", "I", "G", "N">>,
       code |-> 60],
      [name |-> <<"E", "Q", "U", "A", "L", "S", " ", "S", "I", "G", "N">>,
       code |-> 61],
      [name |-> <<"G", "R", "E", "A", "T", "E", "R", "-", "T", "H", "A", "N", " ", "S", "I", "G", "N">>,
       code |-> 62],
      [name |-> <<"Q", "U", "E", "S", "T", "I", "O", "N", " ", "M", "A", "R", "K">>,
       code |-> 63],
      [name |-> <<"C", "O", "M", "M", "E", "R", "C", "I", "A", "L", " ", "A", "T">>,
       code |-> 64],
      [name |-> <<"L", "E", "F", "T", " ", "S", "Q", "U", "A", "R", "E", " ", "B", "R", "A", "C", "K", "E", "T">>,
       code |-> 91],
      [name |-> <<"R", "E", "V", "E", "R", "S", "E", " ", "S", "O", "L", "I", "D", "U", "S">>,
       code |-> 92],
      [name |-> <<"R", "I", "G", "H", "T", " ", "S", "Q", "U", "A", "R", "E", " ", "B", "R", "A", "C", "K", "E", "T">>,
       code |-> 93],
      [name |-> <<"C", "I", "R", "C", "U", "M", "F", "L", "E", "X", " ", "A", "C", "C", "E", "N", "T">>,
       code |-> 94],
      [name |-> <<"L", "O", "W", " ", "L", "I", "N", "E">>,
       code |-> 95],
      [name |-> <<"G", "R", "A", "V", "E", " ", "A", "C", "C", "E", "N", "T">>,
       code |-> 96],
      [name |-> <<"L", "E", "F", "T", " ", "C", "U", "R", "L", "Y", " ", "B", "R", "A", "C", "K", "E", "T">>,
       code |-> 123],
      [name |-> <<"V", "E", "R", "T", "I", "C", "A", "L", " ", "L", "I", "N", "E">>,
       code |-> 124],
      [name |-> <<"R", "I", "G", "H", "T", " ", "C", "U", "R", "L", "Y", " ", "B", "R", "A", "C", "K", "E", "T">>,
       code |-> 125],
      [name |-> <<"T", "I", "L", "D", "E">>,
       code |-> 126]
    >>

CapitalLetter == <<"L", "A", "T", "I", "N", " ", "C", "A", "P", "I", "T", "A", "L", " ", "L", "E", "T", "T", "E", "R", " ">>

SmallLetter == <<"L", "A", "T", "I", "N", " ", "S", "M", "A", "L", "L", " ", "L", "E", "T", "T", "E", "R", " ">>


UpperOf(c, code) == IF code >= 97 /\ code <= 122 THEN Printable[code - 63] ELSE c

UpperChar(c) == UpperOf(c, Ord(c))

(* The code of a name in the table, -1 for a name that is not in it. *)
CodeOfName(table, upper) ==
    LET named == {h \in DOMAIN table : table[h].name = upper}
    IN IF named = {} THEN -1 ELSE table[CHOOSE h \in named : TRUE].code

LookupLetter(upper, letter) ==
    IF Len(upper) = 22 /\ SubSeq(upper, 1, 21) = CapitalLetter /\ letter >= 65 /\ letter <= 90
      THEN letter
    ELSE IF Len(upper) = 20 /\ SubSeq(upper, 1, 19) = SmallLetter
            /\ letter >= 65 /\ letter <= 90
      THEN letter + 32
    ELSE CodeOfName(CharacterNames, upper)

LookupUpper(upper) ==
    LookupLetter(upper, IF upper = <<>> THEN 0 ELSE Ord(upper[Len(upper)]))

(* unicodedata.lookup(name), -1 for a name that is not known. *)
Lookup(name) == LookupUpper([h \in DOMAIN name |-> UpperChar(name[h])])

(* \N{name}: the character of the name. *)
NamedCode(st, c) ==
    IF c = -1 THEN Failed(Error(st, "undefined character name")) ELSE Coded(st, Literal(c))

NamedLookup(r) == IF r.st.err # "" THEN Failed(r.st) ELSE NamedCode(r.st, Lookup(r.name))

NamedUntil(p, s1) ==
    IF s1.err # "" THEN Failed(s1)
    ELSE NamedLookup(GetUntil(p, s1, "}", "missing character name"))

NamedEscape(p, st) ==
    IF ~Match(p, st, "{") THEN Failed(Error(st, "missing {")) ELSE NamedUntil(p, Get(p, st))

(* The literal of an escape as an item of a character set. *)
SetCode(r) == IF r.st.err = "" THEN Coded(r.st, SetLiteral(r.code.c)) ELSE Failed(r.st)

(* An octal escape of up to three digits inside a character set. *)
ClassOctalCode(s1, v) ==
    IF v > 255 THEN Failed(Error(s1, "octal escape value outside of range 0-0o377"))
    ELSE Coded(s1, SetLiteral(v))

ClassOctal(p, st, c, m) ==
    LET s1 == Seek(p, st, st.i + m)
    IN IF s1.err # "" THEN Failed(s1)
       ELSE ClassOctalCode(s1, BaseValue(<<c>> \o SubSeq(p, st.i, st.i + m - 1), 8))

(* _class_escape: an escape inside a character set; the code is an item of *)
(* the set.                                                                 *)
ClassEscape(p, st, escape) ==
    LET c == escape[2] IN
    IF c \in CharEscapes THEN Coded(st, SetLiteral(CharEscapeCode(c)))
    ELSE IF c \in {"d", "D", "s", "S", "w", "W"} THEN Coded(st, SetCategory(c))
    ELSE IF c \in {"x", "u", "U"}
      THEN SetCode(HexEscape(p, st, IF c = "x" THEN 2 ELSE IF c = "u" THEN 4 ELSE 8))
    ELSE IF c = "N" THEN SetCode(NamedEscape(p, st))
    ELSE IF c \in OCTDIGITS THEN ClassOctal(p, st, c, GetWhile(p, st.i, 2, OCTDIGITS))
    ELSE IF c \in DIGITS \/ c \in ASCIILETTERS THEN Failed(Error(st, "bad escape"))
    ELSE Coded(st, SetLiteral(Ord(c)))

(* A reference to the group of a number. *)
GroupRef(s1, group) ==
    LET behind == CheckLookbehindGroup(s1, group)
    IN IF group < Groups(s1)
         THEN IF ~CheckGroup(s1, group)
                THEN Failed(Error(s1, "cannot refer to an open group"))
              ELSE IF behind # "" THEN Failed(Error(s1, behind))
              ELSE Coded(s1, [op |-> "groupref", group |-> group])
       ELSE Failed(Error(s1, "invalid group reference"))

GroupOctal(s2, v) ==
    IF s2.err # "" THEN Failed(s2)
    ELSE IF v > 255 THEN Failed(Error(s2, "octal escape value outside of range 0-0o377"))
    ELSE Coded(s2, Literal(v))

GroupEscapeTwo(p, s1, escape) ==
    IF s1.err # "" THEN Failed(s1)
    ELSE IF /\ escape[1] \in OCTDIGITS
            /\ escape[2] \in OCTDIGITS
            /\ Len(Tok(p, s1.i)) = 1
            /\ p[s1.i] \in OCTDIGITS
      THEN GroupOctal(Get(p, s1), BaseValue(Append(escape, p[s1.i]), 8))
    ELSE GroupRef(s1, DigitsValue(escape))

(* A group reference of one or two digits, or an octal escape of three. *)
GroupEscape(p, st, c) ==
    IF Len(Tok(p, st.i)) = 1 /\ p[st.i] \in DIGITS
      THEN GroupEscapeTwo(p, Get(p, st), <<c, p[st.i]>>)
      ELSE GroupRef(st, DigitsValue(<<c>>))

(* \0 and up to two octal digits after it. *)
ZeroEscape(p, st, m) ==
    LET s1 == Seek(p, st, st.i + m)
    IN IF s1.err # "" THEN Failed(s1)
       ELSE Coded(s1, Literal(BaseValue(SubSeq(p, st.i, st.i + m - 1), 8)))

(* _escape: an escape outside a character set. *)
Escape(p, st, escape) ==
    LET c == escape[2] IN
    IF c \in CategoryEscapes THEN Coded(st, CategoryCode(c))
    ELSE IF c \in CharEscapes THEN Coded(st, Literal(CharEscapeCode(c)))
    ELSE IF c \in {"x", "u", "U"}
      THEN HexEscape(p, st, IF c = "x" THEN 2 ELSE IF c = "u" THEN 4 ELSE 8)
    ELSE IF c = "N" THEN NamedEscape(p, st)
    ELSE IF c = "0" THEN ZeroEscape(p, st, GetWhile(p, st.i, 2, OCTDIGITS))
    ELSE IF c \in DIGITS THEN GroupEscape(p, st, c)
    ELSE IF c \in ASCIILETTERS THEN Failed(Error(st, "bad escape"))
    ELSE Coded(st, Literal(Ord(c)))

(* SubPattern.getwidth: the least and the greatest width of the items,      *)
(* kept at MaxInt.                                                          *)
Plus(a, b) == IF a > MaxInt - b THEN MaxInt ELSE a + b
Times(a, b) == IF a = 0 \/ b = 0 THEN 0 ELSE IF a > MaxInt \div b THEN MaxInt ELSE a * b
Least(a, b) == IF a < b THEN a ELSE b
Greatest(a, b) == IF a > b THEN a ELSE b

WidthOf(r) == <<r.lo, r.hi>>

GetWidth(items, widths) ==
    WidthOf(While([of |-> "width", items |-> items, widths |-> widths],
                  [lo |-> 0, hi |-> 0, k |-> 1, done |-> Len(items) = 0], Len(items)))

(* The widths of the alternatives: the least of the least and the greatest *)
(* of the greatest.                                                         *)
BranchWidth(ws) ==
    <<CHOOSE i \in {w[1] : w \in ws} : \A w \in ws : i <= w[1],
      CHOOSE j \in {w[2] : w \in ws} : \A w \in ws : j >= w[2]>>

RepeatWidth(b, min, max) == <<Times(b[1], min), Times(b[2], max)>>

ChoiceWidth(y, n, else) ==
    IF else THEN <<Least(y[1], n[1]), Greatest(y[2], n[2])>> ELSE <<0, y[2]>>

ItemWidth(item, widths) ==
    CASE item.op = "branch" ->
           BranchWidth({GetWidth(item.alts[j], widths) : j \in DOMAIN item.alts})
      [] item.op \in {"atomic_group", "subpattern"} -> GetWidth(item.p, widths)
      [] item.op = "repeat" -> RepeatWidth(GetWidth(item.p, widths), item.min, item.max)
      [] item.op \in {"any", "in", "literal", "not_literal"} -> <<1, 1>>
      [] item.op = "groupref" -> widths[item.group]
      [] item.op = "groupref_exists" ->
           ChoiceWidth(GetWidth(item.yes, widths), GetWidth(item.no, widths), item.else)
      [] OTHER -> <<0, 0>>

Widen(loop, acc, w) ==
    [lo |-> Plus(acc.lo, w[1]), hi |-> Plus(acc.hi, w[2]), k |-> acc.k + 1,
     done |-> acc.k >= Len(loop.items)]

(* One item more of the subpattern. *)
WidthStep(loop, acc) == Widen(loop, acc, ItemWidth(loop.items[acc.k], loop.widths))

(* A decimal numeral without its leading zeros, and the order of two such. *)
StripLeadingZeros(s) ==
    IF \A i \in DOMAIN s : s[i] = "0" THEN <<>>
    ELSE SubSeq(s, CHOOSE i \in DOMAIN s : s[i] # "0" /\ \A j \in 1..(i - 1) : s[j] = "0",
                Len(s))

NumeralLess(a, b) ==
    \/ Len(a) < Len(b)
    \/ /\ Len(a) = Len(b)
       /\ \E i \in DOMAIN a : /\ DigitValue(a[i]) < DigitValue(b[i])
                              /\ \A j \in 1..(i - 1) : a[j] = b[j]

(* The numeral is MAXREPEAT, 4294967295, or more. *)
TooLarge(s) ==
    ~NumeralLess(StripLeadingZeros(s), <<"4", "2", "9", "4", "9", "6", "7", "2", "9", "5">>)

(* _uniq: the items without the repetitions, in the order they came. *)
Uniq(s) ==
    LET keep == {i \in DOMAIN s : \A j \in 1..(i - 1) : s[j] # s[i]}
    IN [n \in 1..Cardinality(keep) |->
           s[CHOOSE i \in keep : Cardinality({j \in keep : j <= i}) = n]]

(* The sequences of a sequence, one after another. *)
ConcatStep(loop, acc) ==
    [out |-> acc.out \o loop.ss[acc.k], k |-> acc.k + 1, done |-> acc.k >= Len(loop.ss)]

Concat(ss) ==
    IF Len(ss) = 0 THEN <<>>
    ELSE IF Len(ss) = 1 THEN ss[1]
    ELSE While([of |-> "concat", ss |-> ss], [out |-> <<>>, k |-> 1, done |-> FALSE],
               Len(ss)).out

(* One item of the character set after "[" and "^": _parse, lines         *)
(* 562-619.  The set goes on with one item more, or it ends.               *)
SetMore(st, set) == [st |-> st, set |-> set, done |-> FALSE]
SetEnd(st, set) == [st |-> st, set |-> set, done |-> TRUE]

(* code1 and code2: the item of one token. *)
SetItem(p, st, token) ==
    IF token[1] = "\\" THEN ClassEscape(p, st, token)
    ELSE Coded(st, SetLiteral(Ord(token[1])))

(* The range from code1 to code2. *)
SetSecond(set, code1, e2) ==
    IF e2.st.err # "" THEN SetEnd(e2.st, set)
    ELSE IF code1.k # "literal" \/ e2.code.k # "literal" \/ e2.code.c < code1.c
      THEN SetEnd(Error(e2.st, "bad character range"), set)
    ELSE SetMore(e2.st, Append(set, SetRange(code1.c, e2.code.c)))

(* The token after the "-". *)
SetThat(p, set, code1, s3, that, s4) ==
    IF that = <<>> THEN SetEnd(Error(s3, "unterminated character set"), set)
    ELSE IF s4.err # "" THEN SetEnd(s4, set)
    ELSE IF that = <<"]">> THEN SetEnd(s4, set \o <<code1, SetLiteral(45)>>)
    ELSE SetSecond(set, code1, SetItem(p, s4, that))

SetRangeTo(p, set, code1, s3) ==
    IF s3.err # "" THEN SetEnd(s3, set)
    ELSE SetThat(p, set, code1, s3, Tok(p, s3.i), Get(p, s3))

(* After code1: a "-" makes a range of it. *)
SetFirst(p, set, e1) ==
    IF e1.st.err # "" THEN SetEnd(e1.st, set)
    ELSE IF ~Match(p, e1.st, "-") THEN SetMore(e1.st, Append(set, e1.code))
    ELSE SetRangeTo(p, set, e1.code, Get(p, e1.st))

SetThis(p, set, st, this, s1) ==
    IF this = <<>> THEN SetEnd(Error(st, "unterminated character set"), set)
    ELSE IF s1.err # "" THEN SetEnd(s1, set)
    ELSE IF this = <<"]">> /\ set # <<>> THEN SetEnd(s1, set)
    ELSE SetFirst(p, set, SetItem(p, s1, this))

SetStep(p, acc) == SetThis(p, acc.set, acc.st, Tok(p, acc.st.i), Get(p, acc.st))

ParseSet(p, st) ==
    While([of |-> "set", p |-> p], [st |-> st, set |-> <<>>, done |-> FALSE],
          Len(p) - st.i + 2)

(* "[": a character set; one literal alone is kept as a literal. *)
InItems(negate, st, set) ==
    IF Len(set) = 1 /\ set[1].k = "literal"
      THEN Coded(st, IF negate THEN NotLiteral(set[1].c) ELSE Literal(set[1].c))
      ELSE Coded(st, In(negate, set))

InCode(negate, r) == IF r.st.err # "" THEN Failed(r.st) ELSE InItems(negate, r.st, Uniq(r.set))

InSet(p, negate, s1) == IF s1.err # "" THEN Failed(s1) ELSE InCode(negate, ParseSet(p, s1))

ParseIn(p, st) ==
    InSet(p, Match(p, st, "^"), IF Match(p, st, "^") THEN Get(p, st) ELSE st)

(* The result of one token of _parse: the state, the items of the          *)
(* subpattern and the verbose flag.                                         *)
Parsed(st, items, verbose) == [st |-> st, items |-> items, verbose |-> verbose]

(* The code read is one item more. *)
ParsedCode(e, items, verbose) == Parsed(e.st, Append(items, e.code), verbose)

(* "{": the bounds of a repeat, or a literal brace. *)
Bounds(st, min, max) == [st |-> st, literal |-> FALSE, min |-> min, max |-> max]
LiteralBrace(st) == [st |-> st, literal |-> TRUE, min |-> 0, max |-> 0]

BoundsOf(lo, hi, s4) ==
    IF s4.err # "" THEN Bounds(s4, 0, 0)
    ELSE IF lo # <<>> /\ TooLarge(lo)
      THEN Bounds(Error(s4, "the repetition number is too large"), 0, 0)
    ELSE IF hi # <<>> /\ TooLarge(hi)
      THEN Bounds(Error(s4, "the repetition number is too large"), 0, 0)
    ELSE IF hi # <<>> /\ NumeralLess(StripLeadingZeros(hi), StripLeadingZeros(lo))
      THEN Bounds(Error(s4, "min repeat greater than max repeat"), 0, 0)
    ELSE Bounds(s4, DigitsValue(lo), IF hi = <<>> THEN MaxInt ELSE DigitsValue(hi))

(* The "}" after lo and hi; without it the brace is a literal. *)
BoundsEnd(p, st, lo, hi, s3) ==
    IF s3.err # "" THEN Bounds(s3, 0, 0)
    ELSE IF ~Match(p, s3, "}") THEN LiteralBrace(Seek(p, st, st.i))
    ELSE BoundsOf(lo, hi, Get(p, s3))

BoundsHiRead(p, st, lo, s2, n2) ==
    BoundsEnd(p, st, lo, SubSeq(p, s2.i, s2.i + n2 - 1), Seek(p, s2, s2.i + n2))

BoundsHi(p, st, lo, s2) ==
    IF s2.err # "" THEN Bounds(s2, 0, 0)
    ELSE BoundsHiRead(p, st, lo, s2, GetWhile(p, s2.i, Len(p), DIGITS))

(* After lo: hi after a ",", and hi is lo without one. *)
BoundsComma(p, st, lo, s1) ==
    IF s1.err # "" THEN Bounds(s1, 0, 0)
    ELSE IF Match(p, s1, ",") THEN BoundsHi(p, st, lo, Get(p, s1))
    ELSE BoundsEnd(p, st, lo, lo, s1)

BoundsLo(p, st, n1) ==
    BoundsComma(p, st, SubSeq(p, st.i, st.i + n1 - 1), Seek(p, st, st.i + n1))

ParseBounds(p, st) ==
    IF Match(p, st, "}") THEN LiteralBrace(st)
    ELSE BoundsLo(p, st, GetWhile(p, st.i, Len(p), DIGITS))

(* The last item of the subpattern is repeated within the bounds. *)
Repeat(p, items, verbose, b) ==
    LET last == items[Len(items)]
        item == IF last.op = "subpattern" /\ last.group = 0
                   /\ last.add_flags = {} /\ last.del_flags = {}
                  THEN last.p ELSE <<last>>
        kind == IF Match(p, b.st, "?") THEN "min"
                ELSE IF Match(p, b.st, "+") THEN "possessive" ELSE "max"
    IN IF b.st.err # "" THEN Parsed(b.st, items, verbose)
       ELSE IF b.literal THEN Parsed(b.st, Append(items, Literal(Ord("{"))), verbose)
       ELSE IF items = <<>> \/ last.op = "at"
         THEN Parsed(Error(b.st, "nothing to repeat"), items, verbose)
       ELSE IF last.op = "repeat"
         THEN Parsed(Error(b.st, "multiple repeat"), items, verbose)
       ELSE Parsed([(IF kind = "max" THEN b.st ELSE Get(p, b.st)) EXCEPT !.repeats = TRUE],
                   [items EXCEPT ![Len(items)] =
                       [op |-> "repeat", kind |-> kind, min |-> b.min, max |-> b.max,
                        p |-> item]],
                   verbose)

(* A repeat character: the last item of the subpattern is repeated. *)
ParseRepeat(p, st, items, this, verbose) ==
    Repeat(p, items, verbose,
           IF this = "{" THEN ParseBounds(p, st)
           ELSE Bounds(st, IF this = "+" THEN 1 ELSE 0, IF this = "?" THEN 1 ELSE MaxInt))

(* _parse_flags: one letter more of the flags turned on after "(?". *)
AddFlagStep(p, acc) ==
    LET st == acc.st
        char == acc.char
        s1 == Get(p, st)
        next == Tok(p, st.i)
        all == acc.add \cup {char[1]}
        end(s) == [st |-> s, add |-> all, char |-> next, done |-> TRUE]
    IN IF char = <<"L">>
         THEN end(Error(st, "bad inline flags: cannot use 'L' flag with a str pattern"))
       ELSE IF char[1] \in TYPE_FLAGS /\ all \cap TYPE_FLAGS # {char[1]}
         THEN end(Error(st, "bad inline flags: flags 'a', 'u' and 'L' are incompatible"))
       ELSE IF next = <<>> THEN end(Error(st, "missing -, : or )"))
       ELSE IF s1.err # "" THEN end(s1)
       ELSE IF next \in {<<")">>, <<"-">>, <<":">>} THEN end(s1)
       ELSE IF Len(next) # 1 \/ next[1] \notin FLAGS THEN end(Error(s1, "unknown flag"))
       ELSE [st |-> s1, add |-> all, char |-> next, done |-> FALSE]

(* One letter more of the flags turned off after "-". *)
DelFlagStep(p, acc) ==
    LET st == acc.st
        char == acc.char
        s1 == Get(p, st)
        next == Tok(p, st.i)
        all == acc.del \cup {char[1]}
        end(s) == [st |-> s, del |-> all, char |-> next, done |-> TRUE]
    IN IF char[1] \in TYPE_FLAGS
         THEN end(Error(st, "bad inline flags: cannot turn off flags 'a', 'u' and 'L'"))
       ELSE IF next = <<>> THEN end(Error(st, "missing :"))
       ELSE IF s1.err # "" THEN end(s1)
       ELSE IF next = <<":">> THEN end(s1)
       ELSE IF Len(next) # 1 \/ next[1] \notin FLAGS THEN end(Error(s1, "unknown flag"))
       ELSE [st |-> s1, del |-> all, char |-> next, done |-> FALSE]

AddFlags(p, st, char) ==
    While([of |-> "add_flags", p |-> p],
          [st |-> st, add |-> {}, char |-> char, done |-> FALSE], Len(p) - st.i + 2)

DelFlags(p, st, char) ==
    While([of |-> "del_flags", p |-> p],
          [st |-> st, del |-> {}, char |-> char, done |-> FALSE], Len(p) - st.i + 2)

(* _parse_flags: the flags turned on, those turned off, and whether the    *)
(* form is the global one, "(?flags)".                                      *)
NoneFlagged(st) == [st |-> st, global |-> FALSE, add |-> {}, del |-> {}]

FlagsOff(a, d) ==
    IF d.st.err # "" THEN NoneFlagged(d.st)
    ELSE IF d.del \cap GLOBAL_FLAGS # {}
      THEN NoneFlagged(Error(d.st, "bad inline flags: cannot turn off global flag"))
    ELSE IF a.add \cap d.del # {}
      THEN NoneFlagged(Error(d.st, "bad inline flags: flag turned on and off"))
    ELSE [st |-> d.st, global |-> FALSE, add |-> a.add, del |-> d.del]

(* After "-": the first of the flags turned off. *)
FlagsDash(p, a, first, s1) ==
    IF first = <<>> THEN NoneFlagged(Error(a.st, "missing flag"))
    ELSE IF s1.err # "" THEN NoneFlagged(s1)
    ELSE IF Len(first) # 1 \/ first[1] \notin FLAGS
      THEN NoneFlagged(Error(s1, "unknown flag"))
    ELSE FlagsOff(a, DelFlags(p, s1, first))

FlagsOn(p, a) ==
    IF a.st.err # "" THEN NoneFlagged(a.st)
    ELSE IF a.char = <<")">>
      THEN [st |-> [a.st EXCEPT !.flags = @ \cup a.add], global |-> TRUE,
            add |-> a.add, del |-> {}]
    ELSE IF a.add \cap GLOBAL_FLAGS # {}
      THEN NoneFlagged(Error(a.st, "bad inline flags: cannot turn on global flag"))
    ELSE IF a.char = <<"-">> THEN FlagsDash(p, a, Tok(p, a.st.i), Get(p, a.st))
    ELSE [st |-> a.st, global |-> FALSE, add |-> a.add, del |-> {}]

ParseFlags(p, st, char) ==
    FlagsOn(p, IF char = <<"-">> THEN [st |-> st, add |-> {}, char |-> char]
               ELSE AddFlags(p, st, char))

(* The end of _parse: a group that neither captures nor sets a flag gives   *)
(* its items to the subpattern around it.                                   *)
Unpack(items) ==
    Concat([j \in DOMAIN items |->
               IF items[j].op = "subpattern" /\ items[j].group = 0
                  /\ items[j].add_flags = {} /\ items[j].del_flags = {}
                 THEN items[j].p ELSE <<items[j]>>])

(* "(?#": a comment up to the next ")". *)
CommentEnd(p, st, j) ==
    IF j = 0 THEN Error(st, "missing ), unterminated comment") ELSE Seek(p, st, j + 1)

SkipComment(p, st) == CommentEnd(p, st, Find(p, st, ")"))

(* "#" in a verbose pattern: a comment up to the end of the line. *)
LineEnd(p, st, j) ==
    IF j # 0 THEN Seek(p, st, j + 1)
    ELSE IF OpenEscape(p, st) THEN Error(st, "bad escape (end of pattern)")
    ELSE [st EXCEPT !.i = Len(p) + 1]

SkipLine(p, st) == LineEnd(p, st, Find(p, st, "\n"))

(* _parse_sub: the alternatives of a subpattern. *)
Branches(r) ==
    [st |-> r.st,
     items |-> IF Len(r.branches) = 1 THEN r.branches[1]
               ELSE <<[op |-> "branch", alts |-> r.branches]>>]

ParseSub(p, st, verbose, nested) ==
    Branches(While([of |-> "parse", p |-> p, nested |-> nested],
                   [st |-> st, branches |-> <<>>, items |-> <<>>, verbose |-> verbose,
                    sub |-> TRUE, done |-> FALSE],
                   Len(p) - st.i + 3))

(* _parse alone: the items up to "|", ")" or the end. *)
OneBranch(r) == [st |-> r.st, items |-> IF r.branches = <<>> THEN <<>> ELSE r.branches[1]]

ParseItems(p, st, verbose, nested) ==
    OneBranch(While([of |-> "parse", p |-> p, nested |-> nested - 1],
                    [st |-> st, branches |-> <<>>, items |-> <<>>, verbose |-> verbose,
                     sub |-> FALSE, done |-> FALSE],
                    Len(p) - st.i + 3))

(* The contents of a group and its ")": _parse, lines 855-875. *)
GroupClosed(items, verbose, atomic, flags, group, sub, s3) ==
    IF atomic THEN Parsed(s3, Append(items, [op |-> "atomic_group", p |-> sub]), verbose)
    ELSE Parsed(s3,
                Append(items, [op |-> "subpattern", group |-> group,
                               add_flags |-> flags.add, del_flags |-> flags.del, p |-> sub]),
                verbose)

GroupEnd(items, verbose, capture, atomic, flags, group, r, s2) ==
    IF s2.err # "" THEN Parsed(s2, items, verbose)
    ELSE GroupClosed(items, verbose, atomic, flags, group, r.items,
                     IF capture
                       THEN [s2 EXCEPT !.widths[group] = GetWidth(r.items, r.st.widths)]
                       ELSE s2)

Contents(p, items, verbose, capture, atomic, flags, group, r) ==
    IF r.st.err # "" THEN Parsed(r.st, items, verbose)
    ELSE IF ~Match(p, r.st, ")")
      THEN Parsed(Error(r.st, "missing ), unterminated subpattern"), items, verbose)
    ELSE GroupEnd(items, verbose, capture, atomic, flags, group, r, Get(p, r.st))

ParseContents(p, st, items, verbose, nested, name, capture, atomic, flags) ==
    IF capture /\ \E n \in st.names : n[1] = name
      THEN Parsed(Error(st, "redefinition of group name"), items, verbose)
      ELSE Contents(p, items, verbose, capture, atomic, flags,
                    IF capture THEN Groups(st) ELSE 0,
                    ParseSub(p,
                             IF capture
                               THEN [st EXCEPT !.widths = Append(@, <<>>),
                                               !.names = IF name = <<>> THEN @
                                                         ELSE @ \cup {<<name, Groups(st)>>}]
                               ELSE st,
                             (verbose \/ "x" \in flags.add) /\ "x" \notin flags.del,
                             nested + 1))

(* "(?=", "(?!", "(?<=" and "(?<!": _parse, lines 758-783. *)
AssertItem(items, verbose, char, dir, sub, s3, w) ==
    Parsed([s3 EXCEPT !.variable = @ \/ (dir < 0 /\ (w[1] # w[2] \/ w[2] = MaxInt))],
           Append(items, [op |-> IF char = "=" THEN "assert" ELSE "assert_not",
                          dir |-> dir, back |-> w[1], p |-> sub]),
           verbose)

AssertWidth(items, verbose, char, dir, sub, s3) ==
    IF s3.err # "" THEN Parsed(s3, items, verbose)
    ELSE AssertItem(items, verbose, char, dir, sub, s3, GetWidth(sub, s3.widths))

AssertEnd(p, items, verbose, char, dir, sub, s2) ==
    IF ~Match(p, s2, ")")
      THEN Parsed(Error(s2, "missing ), unterminated subpattern"), items, verbose)
      ELSE AssertWidth(items, verbose, char, dir, sub, Get(p, s2))

Asserted(p, items, verbose, char, dir, outer, r) ==
    IF r.st.err # "" THEN Parsed(r.st, items, verbose)
    ELSE AssertEnd(p, items, verbose, char, dir, r.items,
                   [r.st EXCEPT !.lookbehindgroups = outer])

ParseAssert(p, st, items, verbose, nested, char, dir) ==
    Asserted(p, items, verbose, char, dir, st.lookbehindgroups,
             ParseSub(p,
                      IF dir < 0 /\ st.lookbehindgroups = -1
                        THEN [st EXCEPT !.lookbehindgroups = Groups(st)] ELSE st,
                      verbose, nested + 1))

(* "(?(": a conditional on a group: _parse, lines 785-832. *)
CondEnd(items, verbose, condgroup, yes, else, no, s3) ==
    IF s3.err # "" THEN Parsed(s3, items, verbose)
    ELSE Parsed(s3,
                Append(items, [op |-> "groupref_exists", group |-> condgroup,
                               yes |-> yes, no |-> no, else |-> else]),
                verbose)

CondNo(p, items, verbose, condgroup, yes, else, no) ==
    IF no.st.err # "" THEN Parsed(no.st, items, verbose)
    ELSE IF else /\ Match(p, no.st, "|")
      THEN Parsed(Error(no.st, "conditional backref with more than two branches"),
                  items, verbose)
    ELSE IF ~Match(p, no.st, ")")
      THEN Parsed(Error(no.st, "missing ), unterminated subpattern"), items, verbose)
    ELSE CondEnd(items, verbose, condgroup, yes, else, no.items, Get(p, no.st))

CondYes(p, items, verbose, nested, condgroup, yes) ==
    CondNo(p, items, verbose, condgroup, yes.items,
           yes.st.err = "" /\ Match(p, yes.st, "|"),
           IF yes.st.err = "" /\ Match(p, yes.st, "|")
             THEN ParseItems(p, Get(p, yes.st), verbose, nested + 1)
             ELSE [st |-> yes.st, items |-> <<>>])

CondGroup(p, s1, items, verbose, nested, condgroup) ==
    LET behind == CheckLookbehindGroup(s1, condgroup)
    IN IF behind # "" THEN Parsed(Error(s1, behind), items, verbose)
       ELSE CondYes(p, items, verbose, nested, condgroup,
                    ParseItems(p, s1, verbose, nested + 1))

CondNumber(p, st, items, verbose, nested, number) ==
    IF number.exc # NoExc \/ number.value < 0
      THEN Parsed(Error(st, "bad character in group name"), items, verbose)
    ELSE IF number.value = 0 THEN Parsed(Error(st, "bad group number"), items, verbose)
    ELSE IF number.value >= 1073741823
      THEN Parsed(Error(st, "invalid group reference"), items, verbose)
    ELSE CondGroup(p, [st EXCEPT !.grouprefpos = @ \cup {number.value}], items, verbose,
                   nested, number.value)

CondName(p, items, verbose, nested, n) ==
    IF n.st.err # "" THEN Parsed(n.st, items, verbose)
    ELSE IF ~IsIdentifier(n.name)
      THEN CondNumber(p, n.st, items, verbose, nested, IntOfStr(n.name))
    ELSE IF ~\E e \in n.st.names : e[1] = n.name
      THEN Parsed(Error(n.st, "unknown group name"), items, verbose)
    ELSE CondGroup(p, n.st, items, verbose, nested,
                   (CHOOSE e \in n.st.names : e[1] = n.name)[2])

ParseConditional(p, st, items, verbose, nested) ==
    CondName(p, items, verbose, nested, GetUntil(p, st, ")", "missing group name"))

NoFlags == [add |-> {}, del |-> {}]


(* "(?P<name>": a named group, and "(?P=name)": a reference to one. *)
NamedGroup(p, st, items, verbose, nested, n) ==
    IF n.st.err # "" THEN Parsed(Error(st, n.st.err), items, verbose)
    ELSE IF ~IsIdentifier(n.name)
      THEN Parsed(Error(st, "bad character in group name"), items, verbose)
    ELSE ParseContents(p, n.st, items, verbose, nested, n.name, TRUE, FALSE, NoFlags)

NamedRef(st, items, verbose, n) ==
    LET known == \E e \in n.st.names : e[1] = n.name
        gid == (CHOOSE e \in n.st.names : e[1] = n.name)[2]
        err == IF n.st.err # "" THEN n.st.err
               ELSE IF ~IsIdentifier(n.name) THEN "bad character in group name"
               ELSE IF ~known THEN "unknown group name"
               ELSE IF ~CheckGroup(n.st, gid) THEN "cannot refer to an open group"
               ELSE CheckLookbehindGroup(n.st, gid)
    IN IF err # "" THEN Parsed(Error(st, err), items, verbose)
       ELSE Parsed(n.st, Append(items, [op |-> "groupref", group |-> gid]), verbose)

NamedKind(p, st, items, verbose, nested, next, s2) ==
    IF next = <<>> THEN Parsed(Error(st, "unexpected end of pattern"), items, verbose)
    ELSE IF s2.err # "" THEN Parsed(Error(st, s2.err), items, verbose)
    ELSE IF next = <<"<">>
      THEN NamedGroup(p, st, items, verbose, nested,
                      GetUntil(p, s2, ">", "missing group name"))
    ELSE IF next = <<"=">>
      THEN NamedRef(st, items, verbose, GetUntil(p, s2, ")", "missing group name"))
    ELSE Parsed(Error(st, "unknown extension ?P"), items, verbose)

ParseNamed(p, st, items, verbose, nested) ==
    NamedKind(p, st, items, verbose, nested, Tok(p, st.i), Get(p, st))

(* "(?flags)" and "(?flags:": the flags of the pattern or of a group. *)
Flagged(p, items, verbose, nested, first, f) ==
    IF f.st.err # "" THEN Parsed(f.st, items, verbose)
    ELSE IF f.global
      THEN IF ~first \/ items # <<>>
             THEN Parsed(Error(f.st, "global flags not at the start of the expression"),
                         items, verbose)
             ELSE Parsed(f.st, items, "x" \in f.st.flags)
    ELSE ParseContents(p, f.st, items, verbose, nested, <<>>, FALSE, FALSE,
                       [add |-> f.add, del |-> f.del])

ParseFlagged(p, st, items, verbose, nested, first, char) ==
    Flagged(p, items, verbose, nested, first, ParseFlags(p, st, char))

(* "(?<": a look-behind. *)
Lookbehind(p, st, items, verbose, nested, next, s2) ==
    IF next = <<>> THEN Parsed(Error(st, "unexpected end of pattern"), items, verbose)
    ELSE IF s2.err # "" THEN Parsed(Error(st, s2.err), items, verbose)
    ELSE IF next # <<"=">> /\ next # <<"!">>
      THEN Parsed(Error(st, "unknown extension ?<"), items, verbose)
    ELSE ParseAssert(p, s2, items, verbose, nested, next[1], -1)

(* The extension of the character after "(?". *)
Extension(p, st, items, verbose, nested, first, char, s1) ==
    IF char = <<>> THEN Parsed(Error(st, "unexpected end of pattern"), items, verbose)
    ELSE IF s1.err # "" THEN Parsed(Error(st, s1.err), items, verbose)
    ELSE IF Len(char) # 1 THEN Parsed(Error(st, "unknown extension ?"), items, verbose)
    ELSE CASE char[1] = "<" ->
                Lookbehind(p, st, items, verbose, nested, Tok(p, s1.i), Get(p, s1))
           [] char[1] = "P" -> ParseNamed(p, s1, items, verbose, nested)
           [] char[1] \in {":", ">"} ->
                ParseContents(p, s1, items, verbose, nested, <<>>, FALSE, char[1] = ">",
                              NoFlags)
           [] char[1] = "#" -> Parsed(SkipComment(p, s1), items, verbose)
           [] char[1] \in {"=", "!"} ->
                ParseAssert(p, s1, items, verbose, nested, char[1], 1)
           [] char[1] = "(" -> ParseConditional(p, s1, items, verbose, nested)
           [] char[1] \in FLAGS \cup {"-"} ->
                ParseFlagged(p, s1, items, verbose, nested, first, char)
           [] OTHER -> Parsed(Error(st, "unknown extension ?"), items, verbose)

Extended(p, st, items, verbose, nested, first, q) ==
    IF q.err # "" THEN Parsed(Error(st, q.err), items, verbose)
    ELSE Extension(p, st, items, verbose, nested, first, Tok(p, q.i), Get(p, q))

(* "(": a group, or one of the extensions after "(?": _parse, lines        *)
(* 706-875.                                                                 *)
ParseGroup(p, st, items, verbose, nested, first) ==
    IF ~Match(p, st, "?")
      THEN ParseContents(p, st, items, verbose, nested, <<>>, TRUE, FALSE, NoFlags)
      ELSE Extended(p, st, items, verbose, nested, first, Get(p, st))

(* One token of _parse. *)
ParseToken(p, st, items, this, verbose, nested, first) ==
    LET kind == IF st.err # "" THEN "error"
                ELSE IF verbose /\ Len(this) = 1 /\ this[1] \in WHITESPACE THEN "space"
                ELSE IF verbose /\ this = <<"#">> THEN "comment"
                ELSE IF this[1] = "\\" THEN "escape"
                ELSE IF this[1] \notin SPECIAL_CHARS THEN "literal"
                ELSE IF this[1] \in REPEAT_CHARS THEN "repeat"
                ELSE this[1]
    IN CASE kind \in {"error", "space"} -> Parsed(st, items, verbose)
         [] kind = "comment" -> Parsed(SkipLine(p, st), items, verbose)
         [] kind = "escape" -> ParsedCode(Escape(p, st, this), items, verbose)
         [] kind = "literal" -> Parsed(st, Append(items, Literal(Ord(this[1]))), verbose)
         [] kind = "[" -> ParsedCode(ParseIn(p, st), items, verbose)
         [] kind = "repeat" -> ParseRepeat(p, st, items, this[1], verbose)
         [] kind = "." -> Parsed(st, Append(items, [op |-> "any"]), verbose)
         [] kind = "(" -> ParseGroup(p, st, items, verbose, nested, first)
         [] kind = "^" -> Parsed(st, Append(items, AtCode("^")), verbose)
         [] OTHER -> Parsed(st, Append(items, AtCode("$")), verbose)

(* The branch read so far is closed. *)
Closed(acc, items) == [acc EXCEPT !.branches = Append(@, items), !.items = <<>>]

(* The token has been read. *)
Taken(acc, r) == [acc EXCEPT !.st = r.st, !.items = r.items, !.verbose = r.verbose]

(* One pass of the loops of _parse_sub and _parse: the end of the          *)
(* subpattern, the "|" between two alternatives, or one token.             *)
ParseStep(p, acc, nested) ==
    LET this == Tok(p, acc.st.i)
    IN IF acc.st.err # "" THEN [acc EXCEPT !.done = TRUE]
       ELSE IF this = <<>> \/ this = <<")">> \/ (this = <<"|">> /\ ~acc.sub)
         THEN [Closed(acc, Unpack(acc.items)) EXCEPT !.done = TRUE]
       ELSE IF this = <<"|">>
         THEN [Closed(acc, Unpack(acc.items)) EXCEPT
                  !.st = Get(p, acc.st),
                  !.verbose = IF nested = 0 THEN "x" \in acc.st.flags ELSE @]
       ELSE Taken(acc, ParseToken(p, Get(p, acc.st), acc.items, this, acc.verbose,
                                  nested + 1,
                                  acc.sub /\ nested = 0 /\ acc.branches = <<>>))

(* The type of the exception a message is raised with. *)
ErrorType(msg) ==
    IF msg = "the repetition number is too large" THEN "OverflowError"
    ELSE IF msg = "ASCII and UNICODE flags are incompatible" THEN "ValueError"
    ELSE "re.error"

(* parse and compile: the whole pattern is parsed, a ")" left over is       *)
(* unbalanced, a conditional may name no group that the pattern lacks, the  *)
(* flags must agree, a look-behind has one width, and the template flag     *)
(* allows no repeat.                                                        *)
Compiled(p, r) ==
    LET err == IF r.st.err # "" THEN r.st.err
               ELSE IF "u" \in r.st.flags THEN "ASCII and UNICODE flags are incompatible"
               ELSE IF r.st.i <= Len(p) THEN "unbalanced parenthesis"
               ELSE IF \E g \in r.st.grouprefpos : g >= Groups(r.st)
                 THEN "invalid group reference"
               ELSE IF r.st.variable THEN "look-behind requires fixed-width pattern"
               ELSE IF "t" \in r.st.flags /\ r.st.repeats
                 THEN "internal: unsupported template operator"
               ELSE ""
    IN IF err # ""
         THEN [ok |-> FALSE, exc |-> PyExc(ErrorType(err)), error |-> err,
               items |-> <<>>, flags |-> {}, groups |-> 1]
         ELSE [ok |-> TRUE, exc |-> NoExc, error |-> "",
               items |-> r.items, flags |-> r.st.flags, groups |-> Groups(r.st)]

ReCompile(p) == Compiled(p, ParseSub(p, Seek(p, State({"i", "a"}), 1), FALSE, 0))

(* The matcher.  A state of the match is the number of characters consumed  *)
(* and the marks of the groups; the subject is the sequence of the codes    *)
(* of its characters.                                                       *)
LowerCode(c) == IF c >= 65 /\ c <= 90 THEN c + 32 ELSE c

IsWord(c) == (c >= 48 /\ c <= 57) \/ (c >= 65 /\ c <= 90) \/ (c >= 97 /\ c <= 122) \/ c = 95

InCategory(cat, c) ==
    IF cat = "d" THEN c >= 48 /\ c <= 57
    ELSE IF cat = "D" THEN ~(c >= 48 /\ c <= 57)
    ELSE IF cat = "s" THEN c \in {9, 10, 11, 12, 13, 32}
    ELSE IF cat = "S" THEN c \notin {9, 10, 11, 12, 13, 32}
    ELSE IF cat = "w" THEN IsWord(c)
    ELSE ~IsWord(c)

(* One item of a character set against a character; with IGNORECASE the    *)
(* items are lowered and so is the character.                               *)
InItem(item, c, ignore) ==
    LET lc == IF ignore THEN LowerCode(c) ELSE c IN
    IF item.k = "literal" THEN lc = (IF ignore THEN LowerCode(item.c) ELSE item.c)
    ELSE IF item.k = "category" THEN InCategory(item.cat, lc)
    ELSE IF ignore
      THEN \/ (item.lo <= lc /\ lc <= item.hi /\ ~(lc >= 65 /\ lc <= 90))
           \/ (lc >= 97 /\ lc <= 122 /\ item.lo <= lc - 32 /\ lc - 32 <= item.hi)
      ELSE item.lo <= lc /\ lc <= item.hi

(* _combine_flags *)
CombineFlags(flags, add_flags, del_flags) ==
    ((IF add_flags \cap TYPE_FLAGS # {} THEN flags \ TYPE_FLAGS ELSE flags)
        \cup add_flags) \ del_flags

(* An assertion about the position. *)
AtPosition(at, flags, subject, pos) ==
    LET n == Len(subject)
        before == pos > 0 /\ IsWord(subject[pos])
        after == pos < n /\ IsWord(subject[pos + 1])
    IN IF at = "^" THEN pos = 0 \/ ("m" \in flags /\ subject[pos] = 10)
       ELSE IF at = "$"
         THEN \/ pos = n
              \/ (pos = n - 1 /\ subject[n] = 10)
              \/ ("m" \in flags /\ subject[pos + 1] = 10)
       ELSE IF at = "A" THEN pos = 0
       ELSE IF at = "Z" THEN pos = n
       ELSE IF at = "b" THEN n > 0 /\ before # after
       ELSE n > 0 /\ before = after

(* A group matched earlier is met again at the position. *)
SameText(subject, from, to, pos, ignore) ==
    /\ pos + (to - from) <= Len(subject)
    /\ \A h \in 1..(to - from) :
          IF ignore
            THEN LowerCode(subject[from + h]) = LowerCode(subject[pos + h])
            ELSE subject[from + h] = subject[pos + h]

IsSet(s, group) ==
    /\ group <= Len(s.marks)
    /\ s.marks[group][1] >= 0
    /\ s.marks[group][2] >= s.marks[group][1]

(* The matcher keeps what is left to match as a list of frames, todo, and  *)
(* the ways not yet tried as a stack of saved points, the one to try next  *)
(* on top.  The frames: items to match from the i-th on, the end of a      *)
(* group, a repeat that has taken count bodies, and the end of a part that *)
(* is matched on its own.                                                  *)
ItemsFrame(items, flags) == [f |-> "items", items |-> items, flags |-> flags, i |-> 1]

CloseFrame(group) == [f |-> "close", group |-> group]

RepeatFrame(item, flags) ==
    [f |-> "repeat", item |-> item, flags |-> flags, count |-> 0, last |-> -1,
     pos |-> -1, marks |-> <<>>, height |-> -1]

CutFrame(kind, height, pos) == [f |-> "cut", kind |-> kind, height |-> height, pos |-> pos]

SavedPoint(acc, todo) == [todo |-> todo, pos |-> acc.pos, marks |-> acc.marks]

(* The match fails where it is: the way saved last is taken up, and with   *)
(* none left the search is over.                                           *)
Backtrack(acc) ==
    IF acc.stack = <<>> THEN [acc EXCEPT !.done = TRUE]
    ELSE LET top == acc.stack[Len(acc.stack)]
         IN [acc EXCEPT !.todo = top.todo, !.pos = top.pos, !.marks = top.marks,
                        !.stack = SubSeq(@, 1, Len(@) - 1)]

(* A repeat after count bodies: the body once more, unless the last body   *)
(* was empty, or the end of the repeat.  The greedy repeat tries the body  *)
(* first, the lazy one the end; the possessive one keeps each body as it   *)
(* first matches.  Below the least count, a body that has changed nothing  *)
(* and left no other way changes nothing however often it is taken: the    *)
(* count goes to the least at once.                                        *)
RepeatNext(fr, rest, acc) ==
    LET item == fr.item
        height == Len(acc.stack)
        still == /\ fr.count > 0 /\ fr.count < item.min
                 /\ acc.pos = fr.pos /\ acc.marks = fr.marks /\ height = fr.height
        count == IF still THEN item.min ELSE fr.count
        again == \/ count < item.min
                 \/ (count < item.max \/ item.max = MaxInt) /\ acc.pos # fr.last
        next == [fr EXCEPT !.count = IF count = MaxInt THEN count ELSE count + 1,
                           !.last = IF count < item.min THEN @ ELSE acc.pos,
                           !.pos = acc.pos, !.marks = acc.marks, !.height = height]
        body == <<ItemsFrame(item.p, fr.flags)>>
                   \o (IF item.kind = "possessive"
                         THEN <<CutFrame("atomic", height, 0)>> ELSE <<>>)
                   \o <<next>> \o rest
    IN CASE ~again -> [acc EXCEPT !.todo = rest]
         [] count < item.min -> [acc EXCEPT !.todo = body]
         [] item.kind = "min" ->
              [acc EXCEPT !.todo = rest, !.stack = Append(@, SavedPoint(acc, body))]
         [] OTHER ->
              [acc EXCEPT !.todo = body, !.stack = Append(@, SavedPoint(acc, rest))]

(* The end of a part matched on its own: the other ways through the part   *)
(* are dropped.  A look-around goes back to where it started, and a        *)
(* negative one that has matched fails.                                    *)
Cut(fr, rest, acc) ==
    LET cut == [acc EXCEPT !.stack = SubSeq(@, 1, fr.height)]
    IN CASE fr.kind = "atomic" -> [cut EXCEPT !.todo = rest]
         [] fr.kind = "assert" -> [cut EXCEPT !.todo = rest, !.pos = fr.pos]
         [] OTHER -> Backtrack(cut)

(* One item at the position, and next what is to match after it. *)
MatchItem(item, flags, subject, acc, next) ==
    LET n == Len(subject)
        ignore == "i" \in flags
        c == IF acc.pos < n THEN subject[acc.pos + 1] ELSE -1
        same == IF ignore THEN LowerCode(c) = LowerCode(item.c) ELSE c = item.c
        step == [acc EXCEPT !.todo = next, !.pos = @ + 1]
        height == Len(acc.stack)
    IN CASE item.op = "literal" -> IF c # -1 /\ same THEN step ELSE Backtrack(acc)
         [] item.op = "not_literal" -> IF c # -1 /\ ~same THEN step ELSE Backtrack(acc)
         [] item.op = "any" ->
              IF c # -1 /\ ("s" \in flags \/ c # 10) THEN step ELSE Backtrack(acc)
         [] item.op = "in" ->
              IF c # -1 /\ (item.negate #
                               \E j \in DOMAIN item.set : InItem(item.set[j], c, ignore))
                THEN step ELSE Backtrack(acc)
         [] item.op = "at" ->
              IF AtPosition(item.at, flags, subject, acc.pos)
                THEN [acc EXCEPT !.todo = next] ELSE Backtrack(acc)
         [] item.op = "branch" ->
              LET alts == Len(item.alts)
              IN [acc EXCEPT
                     !.todo = <<ItemsFrame(item.alts[1], flags)>> \o next,
                     !.stack = @ \o [j \in 1..(alts - 1) |->
                                       SavedPoint(acc, <<ItemsFrame(item.alts[alts + 1 - j],
                                                                    flags)>> \o next)]]
         [] item.op = "repeat" -> [acc EXCEPT !.todo = <<RepeatFrame(item, flags)>> \o next]
         [] item.op = "subpattern" ->
              LET inner == CombineFlags(flags, item.add_flags, item.del_flags)
              IN IF item.group = 0
                   THEN [acc EXCEPT !.todo = <<ItemsFrame(item.p, inner)>> \o next]
                   ELSE [acc EXCEPT !.todo = <<ItemsFrame(item.p, inner),
                                               CloseFrame(item.group)>> \o next,
                                    !.marks[item.group][1] = acc.pos]
         [] item.op = "atomic_group" ->
              [acc EXCEPT !.todo = <<ItemsFrame(item.p, flags),
                                     CutFrame("atomic", height, 0)>> \o next]
         [] item.op = "assert" ->
              LET from == IF item.dir > 0 THEN acc.pos ELSE acc.pos - item.back
              IN IF from < 0 THEN Backtrack(acc)
                 ELSE [acc EXCEPT !.todo = <<ItemsFrame(item.p, flags),
                                             CutFrame("assert", height, acc.pos)>> \o next,
                                  !.pos = from]
         [] item.op = "assert_not" ->
              LET from == IF item.dir > 0 THEN acc.pos ELSE acc.pos - item.back
              IN IF from < 0 THEN [acc EXCEPT !.todo = next]
                 ELSE [acc EXCEPT !.todo = <<ItemsFrame(item.p, flags),
                                             CutFrame("assert_not", height, 0)>>,
                                  !.pos = from,
                                  !.stack = Append(@, SavedPoint(acc, next))]
         [] item.op = "groupref" ->
              IF IsSet(acc, item.group)
                 /\ SameText(subject, acc.marks[item.group][1], acc.marks[item.group][2],
                             acc.pos, ignore)
                THEN [acc EXCEPT !.todo = next,
                                 !.pos = @ + acc.marks[item.group][2]
                                           - acc.marks[item.group][1]]
                ELSE Backtrack(acc)
         [] item.op = "groupref_exists" ->
              [acc EXCEPT !.todo = <<ItemsFrame(IF IsSet(acc, item.group)
                                                  THEN item.yes ELSE item.no, flags)>>
                                       \o next]
         [] OTHER -> Backtrack(acc)

(* One step of the match: the first frame of what is left.  With nothing  *)
(* left the pattern has matched.                                           *)
MatchStep(subject, acc) ==
    IF acc.todo = <<>> THEN [acc EXCEPT !.done = TRUE, !.found = TRUE]
    ELSE LET fr == acc.todo[1]
             rest == Tail(acc.todo)
         IN CASE fr.f = "items" ->
                   IF fr.i > Len(fr.items) THEN [acc EXCEPT !.todo = rest]
                   ELSE MatchItem(fr.items[fr.i], fr.flags, subject, acc,
                                  IF fr.i = Len(fr.items) THEN rest
                                  ELSE <<[fr EXCEPT !.i = @ + 1]>> \o rest)
              [] fr.f = "close" ->
                   [acc EXCEPT !.todo = rest, !.marks[fr.group][2] = acc.pos]
              [] fr.f = "repeat" -> RepeatNext(fr, rest, acc)
              [] OTHER -> Cut(fr, rest, acc)

(* One pass of a loop. *)
Pass(loop, acc) ==
    IF acc.done THEN acc
    ELSE CASE loop.of = "concat" -> ConcatStep(loop, acc)
           [] loop.of = "width" -> WidthStep(loop, acc)
           [] loop.of = "set" -> SetStep(loop.p, acc)
           [] loop.of = "add_flags" -> AddFlagStep(loop.p, acc)
           [] loop.of = "del_flags" -> DelFlagStep(loop.p, acc)
           [] loop.of = "parse" -> ParseStep(loop.p, acc, loop.nested)
           [] loop.of = "match" -> MatchStep(loop.subject, acc)

(* The steps a search is followed for. *)
MaxSteps == 16 * 16 * 16 * 16 * 16

(* regex.search(item): the pattern matches from some position of the item, *)
(* the positions tried from the first on.                                  *)
RegexSearch(regex, item) ==
    LET subject == [h \in DOMAIN item |-> Ord(item[h])]
        n == Len(subject)
        marks == [g \in 1..(regex.groups - 1) |-> <<-1, -1>>]
        todo == <<ItemsFrame(regex.items, regex.flags)>>
    IN While([of |-> "match", subject |-> subject],
             [todo |-> todo, pos |-> 0, marks |-> marks,
              stack |-> [j \in 1..n |-> [todo |-> todo, pos |-> n + 1 - j, marks |-> marks]],
              done |-> FALSE, found |-> FALSE],
             MaxSteps).found

-----------------------------------------------------------------------------
(* spotcli.utils.filter and Elastigroup.find. *)

(* query_item == item *)
ExactMatch(q, item) == q = item

(* query_item in item *)
SubstringMatch(q, item) ==
    \E i \in 0..(Len(item) - Len(q)) : SubSeq(item, i + 1, i + Len(q)) = q

(* re.compile of every pattern of the query, in order. *)
CompileAll(q) == [i \in DOMAIN q |-> ReCompile(q[i])]

(* What the loop of filter does when a pattern does not compile: the      *)
(* exception of the first such pattern ends the call.                      *)
CompileError(regexes) ==
    LET bad == {i \in 1..Len(regexes) : ~regexes[i].ok}
    IN IF bad = {} THEN NoExc
       ELSE regexes[CHOOSE i \in bad : \A j \in bad : i <= j].exc

(* Variant of filter that keeps the full matches only. *)
filterExactOnly(items, q) ==
    [exc |-> [type |-> "none", code |-> 0],
     ret |-> {item \in items : \E i \in DOMAIN q : ExactMatch(q[i], item)}]

(* Variant of filter that keeps the matches of the last pattern only. *)
filterLastQuery(items, q) ==
    LET regexes == CompileAll(q)
        exc == CompileError(regexes)
    IN IF exc # NoExc
         THEN [exc |-> exc, ret |-> {}]
         ELSE [exc |-> [type |-> "none", code |-> 0],
               ret |-> {item \in items :
                           /\ q # <<>>
                           /\ \/ ExactMatch(q[Len(q)], item)
                              \/ SubstringMatch(q[Len(q)], item)
                              \/ RegexSearch(regexes[Len(q)], item)}]

(* Variant of filter that passes over a pattern that does not compile      *)
(* after taking its full and substring matches.                             *)
filterSkipMalformed(items, q) ==
    LET regexes == CompileAll(q)
    IN [exc |-> [type |-> "none", code |-> 0],
        ret |-> {item \in items : \E i \in 1..Len(regexes) :
                    \/ ExactMatch(q[i], item)
                    \/ SubstringMatch(q[i], item)
                    \/ (regexes[i].ok /\ RegexSearch(regexes[i], item))}]

(* spotcli.utils.filter: the union, over the patterns, of the full, the     *)
(* substring and the regex matches; re.compile raises on the first pattern  *)
(* that does not compile.                                                   *)
filter(items, q) ==
    LET regexes == CompileAll(q)
        exc == CompileError(regexes)
    IN IF exc # NoExc
         THEN [exc |-> exc, ret |-> {}]
         ELSE [exc |-> NoExc,
               ret |-> {item \in items : \E i \in DOMAIN q :
                           \/ ExactMatch(q[i], item)
                           \/ SubstringMatch(q[i], item)
                           \/ RegexSearch(regexes[i], item)}]

(* {group["name"]: group["id"] for group in listing}: a later group of the  *)
(* same name replaces the earlier one.                                      *)
Directory(listing) ==
    [n \in {listing[i].name : i \in DOMAIN listing} |->
        listing[CHOOSE i \in DOMAIN listing :
                    /\ listing[i].name = n
                    /\ \A j \in DOMAIN listing : listing[j].name = n => j <= i].id]

(* Elastigroup(spot, id) *)
Handle(id) == [id |-> id]

(* Most calls of spot.get_elastigroups() that the service fails. *)
MaxListFaults == 1

(* spot.get_elastigroups() when find calls it: the groups of the account,   *)
(* or the exception of the client.                                          *)
ListingAnswers ==
    {[exc |-> NoExc, ret |-> remote]}
    \cup IF ~elastigroups.set /\ listCalls < MaxListFaults
           THEN {[exc |-> PyExc("SpotinstClientException"), ret |-> <<>>]}
           ELSE {}

(* The rest of find once it has the directory: filter the names, one handle *)
(* per matched name.                                                        *)
Found(groups, fetched, m) ==
    [cache |-> [set |-> TRUE, map |-> groups],
     fetched |-> fetched,
     exc |-> m.exc,
     ret |-> {<<key, Handle(groups[key])>> : key \in m.ret}]

(* Variant of find that lists the groups again on every call. *)
findRefreshing(cache, answer, q) ==
    IF answer.exc # NoExc
      THEN [cache |-> cache, fetched |-> TRUE, exc |-> answer.exc, ret |-> {}]
      ELSE Found(Directory(answer.ret), TRUE, filter(DOMAIN Directory(answer.ret), q))

(* Elastigroup.find: cls._elastigroups, or, when the class has none, the    *)
(* directory made of what spot.get_elastigroups() answers, kept on the      *)
(* class; an exception of the listing leaves the class as it was.  Then one *)
(* handle per matched name.                                                 *)
find(cache, answer, q) ==
    IF cache.set
      THEN Found(cache.map, FALSE, filter(DOMAIN cache.map, q))
      ELSE IF answer.exc # NoExc
             THEN [cache |-> cache, fetched |-> TRUE, exc |-> answer.exc, ret |-> {}]
             ELSE Found(Directory(answer.ret), TRUE,
                        filter(DOMAIN Directory(answer.ret), q))

(* The lists a comprehension over a Python set can produce: the iteration   *)
(* order of a set of str is not fixed.                                      *)
Orderings(S) ==
    {o \in [1..Cardinality(S) -> S] : \A i, j \in DOMAIN o : o[i] = o[j] => i = j}

(* The handles of one find call, as a list in one of the possible orders. *)
HandleLists(ret) == {[i \in DOMAIN o |-> o[i][2]] : o \in Orderings(ret)}

(* What the first read of data leaves: the query, the class, the list.     *)
(* When find raises, the finally clause returns an unbound local.           *)
Resolve(q, f) ==
    /\ query' = q
    /\ elastigroups' = f.cache
    /\ listCalls' = listCalls + (IF f.fetched THEN 1 ELSE 0)
    /\ listed' = IF f.fetched /\ f.cache.set THEN remote ELSE listed
    /\ fexc' = f.exc
    /\ IF f.exc = NoExc
         THEN /\ resolved' \in HandleLists(f.ret)
              /\ rexc' = NoExc
              /\ rpc' = "resolved"
         ELSE /\ resolved' = <<>>
              /\ rexc' = PyExc("UnboundLocalError")
              /\ rpc' = "raised"

(* TargetList.data of configuration/tasks.py, first read: flatten, one find *)
(* for the whole pattern list, keep the list in _targets.                   *)
Data ==
    /\ rpc = "start"
    /\ impl = "cli"
    /\ \E q \in {reduce(targets, <<>>, aliases)} :
          \E answer \in ListingAnswers :
              \E f \in {find(elastigroups, answer, q)} : Resolve(q, f)
    /\ UNCHANGED <<remote, aliases, targets, impl, changes, lists>>
    /\ UNCHANGED <<runVars, cfgVars, fltVars, grpVars, expVars, rceVars>>

(* Variant of the legacy loop that hands the whole pattern list to one find. *)
LegacyFindsOnce(groups, q) ==
    <<find([set |-> TRUE, map |-> groups], [exc |-> NoExc, ret |-> <<>>], q)>>

(* The find calls of the legacy loop after the first: one per pattern,      *)
(* against the directory the class holds.                                   *)
LegacyFinds(groups, q) ==
    [i \in DOMAIN q |->
        find([set |-> TRUE, map |-> groups], [exc |-> NoExc, ret |-> <<>>], <<q[i]>>)]

(* targets.extend(...) for each find in turn: the lists the loop can build. *)
RECURSIVE LegacyExtend(_)
LegacyExtend(finds) ==
    IF finds = <<>>
      THEN {<<>>}
      ELSE {a \o b : a \in HandleLists(Head(finds).ret),
                     b \in LegacyExtend(Tail(finds))}

(* What a read of the legacy data leaves.  An exception of find leaves data *)
(* as it is.                                                                *)
LegacyResolve(q, first, called) ==
    /\ query' = q
    /\ elastigroups' = IF called THEN first.cache ELSE elastigroups
    /\ listCalls' = listCalls + (IF called /\ first.fetched THEN 1 ELSE 0)
    /\ listed' = IF called /\ first.fetched /\ first.cache.set THEN remote ELSE listed
    /\ fexc' = IF called THEN first.exc ELSE NoExc
    /\ IF called /\ first.exc # NoExc
         THEN /\ resolved' = <<>>
              /\ rexc' = first.exc
              /\ rpc' = "raised"
         ELSE /\ resolved' \in LegacyExtend(LegacyFinds(first.cache.map, q))
              /\ rexc' = NoExc
              /\ rpc' = "resolved"

(* TargetList.data of the legacy tasks.py: a list of tokens is flattened    *)
(* and find is called once per pattern, the results appended to one list; a *)
(* str is handed to find as it is.  Nothing is kept: every read resolves    *)
(* again.  The find it calls is that of Elastigroup, one call per pattern:  *)
(* the first lists the groups when the class holds none, and the first that *)
(* raises ends the loop.                                                    *)
LegacyData ==
    /\ rpc = "start"
    /\ impl = "legacy"
    /\ \E q \in {IF targets.str THEN <<targets.s>>
                                ELSE ReduceItems(targets.kids, <<>>, aliases)} :
          \E answer \in ListingAnswers :
              \E first \in {find(elastigroups, answer, q)} :
                  LegacyResolve(q, first, q # <<>>)
    /\ UNCHANGED <<remote, aliases, targets, impl, changes, lists>>
    /\ UNCHANGED <<runVars, cfgVars, fltVars, grpVars, expVars, rceVars>>

(* Inputs of the resolution. *)
MaxGroups == 2

GroupIds == <<"sig-1", "sig-2", "sig-3", "sig-4", "sig-5", "sig-6", "sig-7", "sig-8">>

GroupNames ==
    {<<"a", "b">>, <<"A", "b">>, <<"b", "$">>, <<"b", "a">>, <<"x">>, <<"(", "a">>}

Listings ==
    UNION {{[i \in 1..n |-> [name |-> f[i], id |-> GroupIds[i]]] :
               f \in [1..n -> GroupNames]} : n \in 0..MaxGroups}

(* Patterns and alias names that the generated tokens are made of. *)
TokenStrings ==
    {<<"a", "b">>, <<"b", "$">>, <<".", "b">>, <<"(", "a">>, <<"x">>, <<"y">>}

TokenLeaves == {Leaf(s) : s \in TokenStrings}

TokenShapes ==
    TokenLeaves
    \cup {List(<<a>>) : a \in TokenLeaves}
    \cup {List(<<a, b>>) : a, b \in TokenLeaves}
    \cup {List(<<a, List(<<b>>)>>) : a, b \in TokenLeaves}
    \cup {List(<<List(<<a>>), b>>) : a, b \in TokenLeaves}

(* The groups of the test client (test_elastigroup.py) and the queries of   *)
(* test_finds_elastigroups.                                                 *)
TestListing ==
    <<[name |->
        <<"p", "r", "o", "d", "_", "u", "s", "-", "i", "s", "-", "b", "i",
          "d", "d", "e", "r", ".", "s", "o", "n", "i", "c", "-", "u", "s",
          ".", "u", "s", "-", "e", "a", "s", "t", "-", "1">>,
       id |-> "sig-00000001"],
      [name |->
        <<"p", "r", "o", "d", "_", "u", "s", "-", "i", "s", "-", "b", "i",
          "d", "d", "e", "r", "-", "h", "a", "p", "r", "o", "x", "y", ".",
          "s", "o", "n", "i", "c", "-", "u", "s", ".", "u", "s", "-", "e",
          "a", "s", "t", "-", "1">>,
       id |-> "sig-00000002"],
      [name |->
        <<"p", "r", "o", "d", "_", "u", "s", "-", "r", "v", "-", "b", "i",
          "d", "d", "e", "r", ".", "s", "o", "n", "i", "c", "-", "u", "s",
          ".", "u", "s", "-", "e", "a", "s", "t", "-", "1">>,
       id |-> "sig-00000003"],
      [name |->
        <<"p", "r", "o", "d", "_", "u", "s", "-", "r", "v", "-", "b", "i",
          "d", "d", "e", "r", "-", "h", "a", "p", "r", "o", "x", "y", ".",
          "s", "o", "n", "i", "c", "-", "u", "s", ".", "u", "s", "-", "e",
          "a", "s", "t", "-", "1">>,
       id |-> "sig-00000004"],
      [name |->
        <<"p", "r", "o", "d", "_", "u", "s", "-", "i", "s", "-", "d", "s",
          "-", "o", "n", "l", "i", "n", "e", ".", "s", "o", "n", "i", "c",
          "-", "u", "s", ".", "u", "s", "-", "e", "a", "s", "t", "-", "1">>,
       id |-> "sig-00000005"],
      [name |->
        <<"p", "r", "o", "d", "u", "c", "t", "i", "o", "n", "-", "p", "l",
          "a", "t", "f", "o", "r", "m", "-", "a", "p", "i", ".", "p", "r",
          "o", "d", "u", "c", "t", "i", "o", "n", ".", "e", "u", "-", "w",
          "e", "s", "t", "-", "1">>,
       id |-> "sig-00000006"]>>

GroupedQuery ==
    <<"(", "i", "s", "|", "r", "v", "|", "o", "w", "|", "b", "a", "n", "n",
      "e", "r", ")", "-", "b", "i", "d", "d", "e", "r", "(", "?", "!", ".",
      "*", "h", "a", "p", "r", "o", "x", "y", ")">>

NameQuery == TestListing[5].name

ShortQuery == <<"i", "s">>

TestQueries == {GroupedQuery, NameQuery, ShortQuery}

NoAliases == <<>>

AliasTables ==
    {NoAliases,
     <<"x">> :> Alias(<<"x">>, <<Leaf(<<"a", "b">>), Leaf(<<"b", "$">>)>>),
     (<<"x">> :> Alias(<<"x">>, <<Leaf(<<"a", "b">>), List(<<Leaf(<<"(", "a">>)>>)>>))
       @@ (<<"y">> :> Alias(<<"y">>, <<Leaf(<<"x">>), Leaf(<<".", "b">>)>>))}

-----------------------------------------------------------------------------
(* The commands that make no Task. *)

(* cli.status line 168: config.providers["spot"], an uncaught KeyError     *)
(* when there is no such provider; then the TargetList of the group.       *)
RunStatus ==
    /\ cpc = "loaded"
    /\ request.cmd = "status"
    /\ LET provs == Providers(config)
       IN  /\ errors' = errors \cup provs.errors
           /\ IF HasKey(provs.call.ret, "spot")
              THEN cpc' = "continue" /\ UNCHANGED exitCode
              ELSE cpc' = "exit" /\ exitCode' = 1
    /\ UNCHANGED <<config, request, constructed, loaded>>
    /\ UNCHANGED <<runVars, resVars, fltVars, grpVars, expVars, rceVars>>

(* The names cli.list shows: all of them, or those the filter keeps. *)
Listed(names, q) ==
    IF q = <<>> THEN [exc |-> NoExc, ret |-> names] ELSE filter(names, q)

(* "\n".join(alias.targets) raises TypeError for a target that is a list. *)
JoinTargets(alias) ==
    IF \E i \in DOMAIN alias.targets : ~alias.targets[i].str
      THEN PyExc("TypeError") ELSE NoExc

(* cli.list lines 59-87.  config.scenarios constructs every Task of every  *)
(* scenario before the names are filtered; an exception of the filter or   *)
(* of a row ends the process with status 1, and otherwise the command      *)
(* returns.                                                                *)
ListEntities ==
    /\ cpc = "loaded"
    /\ request.cmd = "list"
    /\ IF request.kind = "scenarios"
         THEN LET sc == Scenarios(config)
                  shown == Listed({<<sc.call.ret[i].name>> : i \in DOMAIN sc.call.ret},
                                  request.filter)
              IN  /\ errors' = errors \cup sc.errors
                  /\ constructed' = constructed \cup sc.log
                  /\ loaded' = [loaded EXCEPT !.scenarios = sc.call.ret]
                  /\ exitCode' = IF shown.exc # NoExc THEN 1 ELSE 0
         ELSE LET shown == Listed(DOMAIN config.aliases, request.filter)
              IN  /\ exitCode' = IF \/ shown.exc # NoExc
                                    \/ \E a \in shown.ret :
                                          JoinTargets(config.aliases[a]) # NoExc
                                 THEN 1 ELSE 0
                  /\ UNCHANGED <<errors, constructed, loaded>>
    /\ cpc' = "exit"
    /\ UNCHANGED <<config, request>>
    /\ UNCHANGED <<runVars, resVars, fltVars, grpVars, expVars, rceVars>>

-----------------------------------------------------------------------------
(* Inputs of the configuration loader. *)

MaxScenarios == 2

ScenarioNames == <<"A", "B", "C", "D">>

RawProvider(name, kind, complete) == [name |-> name, kind |-> kind, complete |-> complete]

ProviderLists ==
    {<<>>,
     <<RawProvider("spot", "spot", TRUE)>>,
     <<RawProvider("spot", "spot", FALSE)>>,
     <<RawProvider("spot", "spot", TRUE), RawProvider("kv", "consul", TRUE)>>,
     <<RawProvider("spot", "spot", TRUE), RawProvider("kv", "etcd", TRUE)>>,
     <<RawProvider("kv", "etcd", TRUE), RawProvider("spot", "spot", TRUE)>>}

(* What the store answers when a source is read. *)
Answers == {"content", "not_found", "unreadable"}

SourceLists ==
    {<<>>}
    \cup {<<[provider |-> "kv", path |-> "spotcli", answer |-> a]>> : a \in Answers}
    \cup {<<[provider |-> "spot", path |-> "spotcli", answer |-> "content"]>>}

RawTask(kind, complete) == [kind |-> kind, complete |-> complete]

RawTaskLists ==
    {<<RawTask(kd, TRUE)>> : kd \in TaskKinds \cup {"rol"}}
    \cup {<<RawTask("upscale", FALSE)>>,
          <<RawTask("roll", TRUE), RawTask("downscal", TRUE)>>}

RawScenarios(name) ==
    {[name |-> name, tasks |-> ts, fields |-> "complete"] : ts \in RawTaskLists}
    \cup {[name |-> name, tasks |-> <<RawTask("roll", TRUE)>>, fields |-> f] :
             f \in {"no_tasks", "no_description"}}

ScenarioLists ==
    UNION {{sc \in [1..n -> UNION {RawScenarios(ScenarioNames[i]) : i \in 1..n}] :
               \A i \in 1..n : sc[i].name = ScenarioNames[i]} : n \in 0..MaxScenarios}

(* The --filter of spotcli list: none, a name, a pattern that does not     *)
(* compile.                                                                *)
ListFilters == {<<>>, <<<<"x">>>>, <<<<"a">>>>, <<<<"(", "a">>>>}

Requests ==
    {[cmd |-> "run", scenario |-> ScenarioNames[i], kind |-> "", filter |-> <<>>] :
        i \in 1..MaxScenarios}
    \cup {[cmd |-> c, scenario |-> "", kind |-> "", filter |-> <<>>] :
             c \in {"roll", "suspend", "unsuspend", "status"}}
    \cup {[cmd |-> "scale", scenario |-> "", kind |-> d, filter |-> <<>>] :
             d \in {"up", "down"}}
    \cup {[cmd |-> "list", scenario |-> "", kind |-> kd, filter |-> f] :
             kd \in {"aliases", "scenarios"}, f \in ListFilters}

InitConfig ==
    /\ request \in Requests
    /\ config \in [fileExists : BOOLEAN, providers : ProviderLists,
                   sources : SourceLists, scenarios : ScenarioLists,
                   aliases : IF request.cmd = "list" /\ request.kind = "aliases"
                               THEN AliasTables ELSE {NoAliases}]
    /\ cpc = "start"
    /\ exitCode = -1
    /\ errors = {}
    /\ constructed = {}
    /\ loaded = [sources |-> <<>>, scenarios |-> <<>>]
    /\ RunIdle
    /\ ResIdle
    /\ FltIdle
    /\ GrpIdle
    /\ ExpIdle
    /\ RceIdle

NextConfig ==
    \/ LoadConfig
    \/ RunScenario
    \/ RunAction
    \/ RunStatus
    \/ ListEntities

SpecConfig == InitConfig /\ [][NextConfig]_vars

-----------------------------------------------------------------------------
(* The inputs of test_targetlist and of the alias example. *)
NestedTokens ==
    List(<<Leaf(<<"a">>), List(<<Leaf(<<"b">>), List(<<Leaf(<<"c">>)>>)>>), Leaf(<<"d">>)>>)

TestA == <<"t", "e", "s", "t", "A">>
TestB == <<"t", "e", "s", "t", "B">>

TestAliases ==
    (TestA :> Alias(TestA, <<Leaf(<<"a">>), Leaf(<<"b">>), Leaf(<<"c">>)>>))
      @@ (TestB :> Alias(TestB, <<Leaf(TestA), Leaf(<<"d">>), Leaf(<<"e">>)>>))

TestTokens == List(<<Leaf(TestB)>>)

(* Patterns with a parenthesis: a group, and one that closes none. *)
GroupTokens ==
    {Leaf(<<"(", "a", ")">>),
     List(<<Leaf(<<"a", "b">>), Leaf(<<"a", ")">>)>>)}

ResolveInputs ==
    (AliasTables \X TokenShapes)
    \cup {<<NoAliases, NestedTokens>>, <<TestAliases, NestedTokens>>,
          <<TestAliases, TestTokens>>, <<NoAliases, TestTokens>>}
    \cup {<<NoAliases, t>> : t \in GroupTokens}

InitResolve ==
    /\ \/ /\ remote \in Listings
          /\ \E inp \in ResolveInputs : aliases = inp[1] /\ targets = inp[2]
       \/ /\ remote = TestListing
          /\ aliases = NoAliases
          /\ targets \in {Leaf(q) : q \in TestQueries}
    /\ elastigroups = [set |-> FALSE, map |-> <<>>]
    /\ query = <<>>
    /\ resolved = <<>>
    /\ rexc = NoExc
    /\ rpc = "start"
    /\ listCalls = 0
    /\ impl = "cli"
    /\ listed = <<>>
    /\ fexc = NoExc
    /\ changes = 0
    /\ lists = 1
    /\ RunIdle
    /\ CfgIdle
    /\ FltIdle
    /\ GrpIdle
    /\ ExpIdle
    /\ RceIdle

NextResolve == Data

SpecResolve == InitResolve /\ [][NextResolve]_vars

(* The same inputs resolved by either TargetList of the repository. *)
InitTargetLists ==
    /\ remote \in Listings
    /\ elastigroups = [set |-> FALSE, map |-> <<>>]
    /\ \E inp \in ResolveInputs : aliases = inp[1] /\ targets = inp[2]
    /\ query = <<>>
    /\ resolved = <<>>
    /\ rexc = NoExc
    /\ rpc = "start"
    /\ listCalls = 0
    /\ impl \in {"cli", "legacy"}
    /\ listed = <<>>
    /\ fexc = NoExc
    /\ changes = 0
    /\ lists = 1
    /\ RunIdle
    /\ CfgIdle
    /\ FltIdle
    /\ GrpIdle
    /\ ExpIdle
    /\ RceIdle

NextTargetLists == Data \/ LegacyData

SpecTargetLists == InitTargetLists /\ [][NextTargetLists]_vars

-----------------------------------------------------------------------------
(* Several target lists resolved by one process while the remote set of    *)
(* groups changes: each task of a scenario has a TargetList of its own, and *)
(* Elastigroup._elastigroups is shared by all of them.                      *)

MaxChanges == 1
MaxLists == 3

(* The remote service: a group is created or deleted. *)
CreatedNames == {<<"x">>, <<"a", "b">>}

RemoveAt(seq, i) == SubSeq(seq, 1, i - 1) \o SubSeq(seq, i + 1, Len(seq))

RemoteChange ==
    /\ changes < MaxChanges
    /\ \/ \E n \in CreatedNames :
             remote' = Append(remote, [name |-> n, id |-> GroupIds[MaxGroups + changes + 1]])
       \/ \E i \in DOMAIN remote : remote' = RemoveAt(remote, i)
    /\ changes' = changes + 1
    /\ UNCHANGED <<elastigroups, aliases, targets, query, resolved, rexc, rpc, listCalls,
                   impl, listed, fexc, lists>>
    /\ UNCHANGED <<runVars, cfgVars, fltVars, grpVars, expVars, rceVars>>

SnapshotTokens ==
    {List(<<Leaf(<<"a", "b">>)>>), List(<<Leaf(<<".", "b">>)>>), Leaf(<<"x">>)}

(* Variant of the construction that resolves the new list at once. *)
NextTargetListEager ==
    /\ rpc \in {"start", "resolved", "raised"}
    /\ lists < MaxLists
    /\ targets' \in SnapshotTokens
    /\ query' = <<>>
    /\ resolved' = <<>>
    /\ rexc' = NoExc
    /\ fexc' = NoExc
    /\ rpc' = "start"
    /\ lists' = lists + 1
    /\ elastigroups' = find(elastigroups, [exc |-> NoExc, ret |-> remote], <<>>).cache
    /\ listCalls' = listCalls + (IF elastigroups.set THEN 0 ELSE 1)
    /\ listed' = IF elastigroups.set THEN listed ELSE remote
    /\ UNCHANGED <<remote, aliases, impl, changes>>
    /\ UNCHANGED <<runVars, cfgVars, fltVars, grpVars, expVars, rceVars>>

(* TargetList(spot, aliases, targets) and Task(kind, targets, ...) for the  *)
(* next task, as Config.scenarios builds them one after the other before    *)
(* any is read: a new list, whose _targets is not set yet, stored in the    *)
(* Task's attribute.                                                        *)
NextTargetList ==
    /\ rpc \in {"start", "resolved", "raised"}
    /\ lists < MaxLists
    /\ targets' \in SnapshotTokens
    /\ query' = <<>>
    /\ resolved' = <<>>
    /\ rexc' = NoExc
    /\ fexc' = NoExc
    /\ rpc' = "start"
    /\ lists' = lists + 1
    /\ UNCHANGED <<remote, elastigroups, aliases, listCalls, impl, listed, changes>>
    /\ UNCHANGED <<runVars, cfgVars, fltVars, grpVars, expVars, rceVars>>

InitSnapshot ==
    /\ remote \in Listings
    /\ elastigroups = [set |-> FALSE, map |-> <<>>]
    /\ aliases = NoAliases
    /\ targets \in SnapshotTokens
    /\ query = <<>>
    /\ resolved = <<>>
    /\ rexc = NoExc
    /\ rpc = "start"
    /\ listCalls = 0
    /\ impl = "cli"
    /\ listed = <<>>
    /\ fexc = NoExc
    /\ changes = 0
    /\ lists = 1
    /\ RunIdle
    /\ CfgIdle
    /\ FltIdle
    /\ GrpIdle
    /\ ExpIdle
    /\ RceIdle

NextSnapshot == Data \/ RemoteChange \/ NextTargetList

SpecSnapshot == InitSnapshot /\ [][NextSnapshot]_vars

-----------------------------------------------------------------------------
(* spotcli.utils.filter called on its own, on a whole query and on each of  *)
(* its patterns alone.                                                      *)

(* Longest query of one call. *)
MaxQueries == 2

(* Candidates: the group names and one that ends in a newline. *)
FilterNames == GroupNames \cup {<<"b", "\n">>}

(* Patterns: those of the tokens, one with a group, one that closes none. *)
FilterPatterns == TokenStrings \cup {<<"(", "a", ")">>, <<"a", ")">>}

Queries == UNION {[1..n -> FilterPatterns] : n \in 0..MaxQueries}

InitFilter ==
    /\ \/ fC \in SUBSET FilterNames /\ fQ \in Queries
       \/ /\ fC = {TestListing[i].name : i \in DOMAIN TestListing}
          /\ fQ \in {<<q>> : q \in TestQueries}
    /\ fOut = [exc |-> NoExc, ret |-> {}]
    /\ fParts = <<>>
    /\ fpc = "start"
    /\ RunIdle
    /\ CfgIdle
    /\ ResIdle
    /\ GrpIdle
    /\ ExpIdle
    /\ RceIdle

CallFilter ==
    /\ fpc = "start"
    /\ fOut' = filter(fC, fQ)
    /\ fParts' = [i \in DOMAIN fQ |-> filter(fC, <<fQ[i]>>)]
    /\ fpc' = "done"
    /\ UNCHANGED <<fC, fQ>>
    /\ UNCHANGED <<runVars, cfgVars, resVars, grpVars, expVars, rceVars>>

NextFilter == CallFilter

SpecFilter == InitFilter /\ [][NextFilter]_vars

-----------------------------------------------------------------------------
(* Python float arithmetic (IEEE 754 binary64, round to nearest, ties to    *)
(* even) on the non-negative numbers the handle computes with.  A float is  *)
(* its significant binary digits, most significant first, and the exponent  *)
(* of the last digit: the value is BitsValue[m] * 2^e; zero has no digits.  *)
(* The operations are functions: as in Python, an argument is a value       *)
(* before the operation starts.                                             *)

BinaryDigits == Seq({0, 1})

Floats == [m : BinaryDigits, e : Int]

Pow2[n \in Nat] == IF n = 0 THEN 1 ELSE 2 * Pow2[n - 1]

(* Binary digits of a natural number. *)
Bits[n \in Nat] == IF n = 0 THEN <<>> ELSE Append(Bits[n \div 2], n % 2)

(* The w low binary digits of a natural number. *)
PadBits[n \in Nat, w \in Nat] == [i \in 1..w |-> (n \div Pow2[w - i]) % 2]

BitsValue[b \in BinaryDigits] ==
    IF b = <<>> THEN 0 ELSE 2 * BitsValue[SubSeq(b, 1, Len(b) - 1)] + b[Len(b)]

StripZeros[b \in BinaryDigits] ==
    IF \A i \in DOMAIN b : b[i] = 0
      THEN <<>>
      ELSE SubSeq(b, CHOOSE i \in DOMAIN b : b[i] = 1 /\ \A j \in 1..(i - 1) : b[j] = 0,
                  Len(b))

(* b + 1 on binary digits. *)
Increment[b \in BinaryDigits] ==
    IF \A i \in DOMAIN b : b[i] = 1
      THEN <<1>> \o [i \in DOMAIN b |-> 0]
      ELSE LET z == CHOOSE i \in DOMAIN b : b[i] = 0 /\ \A j \in (i + 1)..Len(b) : b[j] = 1
           IN [i \in DOMAIN b |-> IF i < z THEN b[i] ELSE IF i = z THEN 1 ELSE 0]

(* The float nearest to digits * 2^e (+ a non-zero tail when sticky). *)
RoundToDouble[digits \in BinaryDigits, e \in Int, sticky \in BOOLEAN] ==
    IF Len(digits) <= 53
      THEN [m |-> digits, e |-> IF digits = <<>> THEN 0 ELSE e]
      ELSE LET keep == SubSeq(digits, 1, 53)
               guard == digits[54]
               rest == sticky \/ \E i \in 55..Len(digits) : digits[i] = 1
               up == guard = 1 /\ (rest \/ keep[53] = 1)
               raised == Increment[keep]
               shift == e + Len(digits) - 53
           IN IF ~up
                THEN [m |-> keep, e |-> shift]
                ELSE IF Len(raised) = 54
                       THEN [m |-> SubSeq(raised, 1, 53), e |-> shift + 1]
                       ELSE [m |-> raised, e |-> shift]

(* The first n binary digits of r / b after the point, for r < b. *)
Fraction[r \in Nat, b \in Nat, n \in Nat] ==
    IF n = 0 THEN <<>> ELSE <<(2 * r) \div b>> \o Fraction[(2 * r) % b, b, n - 1]

(* The remainder of r * 2^n divided by b. *)
ShiftedRemainder[r \in Nat, b \in Nat, n \in Nat] ==
    IF n = 0 THEN r % b ELSE ShiftedRemainder[(2 * r) % b, b, n - 1]

(* a / b for ints a >= 0, b > 0: Python's true division, the float nearest  *)
(* to the quotient, from enough digits of its binary expansion.             *)
FloatDiv[a \in Nat, b \in Nat] ==
    LET n == 55 + Len(Bits[b])
    IN RoundToDouble[StripZeros[Bits[a \div b] \o Fraction[a % b, b, n]], -n,
                     ShiftedRemainder[a, b, n] # 0]

(* digits * n + carry on binary digits, 18 digits at a time. *)
MulBits[digits \in BinaryDigits, n \in Nat, carry \in Nat] ==
    IF digits = <<>>
      THEN Bits[carry]
      ELSE LET w == IF Len(digits) < 18 THEN Len(digits) ELSE 18
               low == BitsValue[SubSeq(digits, Len(digits) - w + 1, Len(digits))]
               t == low * n + carry
           IN MulBits[SubSeq(digits, 1, Len(digits) - w), n, t \div Pow2[w]]
                 \o PadBits[t % Pow2[w], w]

(* x * n for a float x and an int n >= 0. *)
FloatMulInt[x \in Floats, n \in Nat] == RoundToDouble[StripZeros[MulBits[x.m, n, 0]], x.e, FALSE]

(* int(x): truncation. *)
FloatToInt[x \in Floats] ==
    IF x.e >= 0
      THEN BitsValue[x.m] * Pow2[x.e]
      ELSE IF Len(x.m) + x.e <= 0
             THEN 0
             ELSE BitsValue[SubSeq(x.m, 1, Len(x.m) + x.e)]

-----------------------------------------------------------------------------
(* One Elastigroup handle (utils/elastigroup.py) and the remote group behind *)
(* it.                                                                      *)

PyNone == [py |-> "NoneType", text |-> <<>>]

(* int(x) for a str or an int; an int is kept as its decimal digits. *)
IntOf(x) ==
    IF x.py \in {"int", "str"} THEN IntOfStr(x.text)
    ELSE [exc |-> PyExc("TypeError"), value |-> 0]

(* s.strip("%") *)
StripPercent(s) ==
    IF \A i \in DOMAIN s : s[i] = "%"
      THEN <<>>
      ELSE SubSeq(s,
                  CHOOSE i \in DOMAIN s : s[i] # "%" /\ \A j \in 1..(i - 1) : s[j] = "%",
                  CHOOSE i \in DOMAIN s : s[i] # "%" /\ \A j \in (i + 1)..Len(s) : s[j] = "%")

(* bool(x): None, "" and 0 are false. *)
Truthy(x) ==
    /\ x.py # "NoneType"
    /\ x.py = "str" => x.text # <<>>
    /\ x.py = "int" => IntOfStr(x.text).value # 0

(* int(durations.Duration(s).to_seconds()) for numbers followed by a unit. *)
UnitSeconds(c) == IF c = "h" THEN 3600 ELSE IF c = "m" THEN 60 ELSE 1

RECURSIVE DurationSeconds(_, _, _)
DurationSeconds(s, number, total) ==
    IF s = <<>>
      THEN total
      ELSE IF IsDigit(Head(s))
             THEN DurationSeconds(Tail(s), 10 * number + DigitValue(Head(s)), total)
             ELSE DurationSeconds(Tail(s), 0, total + number * UnitSeconds(Head(s)))

(* The discrete processes and the two that stand for scaling policies. *)
VirtualProcesses == {"AUTO_SCALE_DOWN", "AUTO_SCALE_UP"}

(* spot.get_elastigroup(id): the descriptor of the remote group. *)
Descriptor(rem) ==
    [name |-> rem.name, capacity |-> rem.capacity,
     scaling |-> [down |-> rem.down, up |-> rem.up]]

(* Variant of _group that asks the remote service on every read. *)
GroupRefetched(cache, rem) ==
    [data |-> Descriptor(rem), cache |-> [set |-> TRUE, data |-> Descriptor(rem)],
     calls |-> <<[api |-> "get_elastigroup", arg |-> <<>>]>>]

(* Elastigroup._group: the descriptor, fetched on the first read and kept. *)
Group(cache, rem) ==
    IF cache.set
      THEN [data |-> cache.data, cache |-> cache, calls |-> <<>>]
      ELSE [data |-> Descriptor(rem), cache |-> [set |-> TRUE, data |-> Descriptor(rem)],
            calls |-> <<[api |-> "get_elastigroup", arg |-> <<>>]>>]

(* What a method did: the remote calls it issued, what it returned or      *)
(* raised, the descriptor cache after it.                                   *)
Outcome(calls, exc, value, cache) ==
    [calls |-> calls, exc |-> exc, value |-> value, cache |-> cache]

(* Elastigroup.name *)
Name(cache, rem) ==
    LET g == Group(cache, rem)
    IN Outcome(g.calls, NoExc, g.data.name, g.cache)

(* Elastigroup.capacity *)
Capacity(cache, rem) ==
    LET g == Group(cache, rem)
    IN Outcome(g.calls, NoExc, g.data.capacity, g.cache)

(* Elastigroup.set_capacity *)
SetCapacity(capacity, cache) ==
    Outcome(<<[api |-> "update_elastigroup", arg |-> capacity]>>, NoExc, <<>>, cache)

(* int(n / d * f) for ints n, d > 0 and f >= 0: the float arithmetic is that *)
(* of the size of n, and int() truncates towards zero.                      *)
IntOfScaled(n, d, f) ==
    LET size == FloatToInt[FloatMulInt[FloatDiv[IF n < 0 THEN 0 - n ELSE n, d], f]]
    IN IF n < 0 THEN 0 - size ELSE size

(* The amount of scale_up and scale_down:                                   *)
(*   int(int(amount.strip("%")) / 100 * self.capacity["target"])            *)
(*   if "%" in str(amount) else int(amount)                                 *)
ScaleAmount(amount, cache, rem) ==
    IF HasPercent(Str(amount))
      THEN LET p == IntOfStr(StripPercent(amount.text))
               c == Capacity(cache, rem)
           IN IF p.exc # NoExc
                THEN Outcome(<<>>, p.exc, 0, cache)
                ELSE Outcome(c.calls, NoExc,
                             IntOfScaled(p.value, 100, c.value.target),
                             c.cache)
      ELSE LET n == IntOf(amount)
           IN Outcome(<<>>, n.exc, n.value, cache)

(* Variant of Scale that issues the call for an amount of 0 as well. *)
ScaleAlways(api, amount, cache, rem) ==
    LET Request(a) ==
            IF a.exc # NoExc
              THEN Outcome(a.calls, a.exc, <<>>, a.cache)
              ELSE Outcome(a.calls \o <<[api |-> api, arg |-> a.value]>>, NoExc, <<>>, a.cache)
    IN CHOOSE out \in {Request(a) : a \in {ScaleAmount(amount, cache, rem)}} : TRUE

(* Elastigroup.scale_up and scale_down: the amount is computed once, and     *)
(* nothing is called for an amount of 0.                                    *)
Scale(api, amount, cache, rem) ==
    LET Request(a) ==
            IF a.exc # NoExc
              THEN Outcome(a.calls, a.exc, <<>>, a.cache)
              ELSE IF a.value = 0
                     THEN Outcome(a.calls, NoExc, <<>>, a.cache)
                     ELSE Outcome(a.calls \o <<[api |-> api, arg |-> a.value]>>,
                                  NoExc, <<>>, a.cache)
    IN CHOOSE out \in {Request(a) : a \in {ScaleAmount(amount, cache, rem)}} : TRUE

(* Variant of the batch of roll that takes a batch of an empty group for 0. *)
RollBatchGuarded(batch, cache, rem) ==
    IF HasPercent(Str(batch))
      THEN LET p == IntOfStr(StripPercent(batch.text))
           IN Outcome(<<>>, p.exc, p.value, cache)
      ELSE LET n == IntOf(batch)
               c == Capacity(cache, rem)
           IN IF n.exc # NoExc
                THEN Outcome(<<>>, n.exc, 0, cache)
                ELSE Outcome(c.calls, NoExc,
                             IF c.value.target = 0 THEN 0
                             ELSE IntOfScaled(n.value, c.value.target, 100),
                             c.cache)

(* The batch of roll:                                                       *)
(*   int(batch.strip("%")) if "%" in str(batch)                             *)
(*   else int(int(batch) / self.capacity["target"] * 100)                   *)
RollBatch(batch, cache, rem) ==
    IF HasPercent(Str(batch))
      THEN LET p == IntOfStr(StripPercent(batch.text))
           IN Outcome(<<>>, p.exc, p.value, cache)
      ELSE LET n == IntOf(batch)
               c == Capacity(cache, rem)
           IN IF n.exc # NoExc
                THEN Outcome(<<>>, n.exc, 0, cache)
                ELSE IF c.value.target = 0
                       THEN Outcome(c.calls, PyExc("ZeroDivisionError"), 0, c.cache)
                       ELSE Outcome(c.calls, NoExc,
                                    IntOfScaled(n.value, c.value.target, 100),
                                    c.cache)

DefaultBatch == PyStr(<<"2", "0", "%">>)
DefaultGrace == PyStr(<<"5", "m">>)

(* Elastigroup.roll: the batch is computed first, then the grace;          *)
(* durations.Duration goes through the characters of a str, and raises      *)
(* TypeError on an int.                                                     *)
Roll(batch, grace, cache, rem) ==
    LET period == IF Truthy(grace) THEN grace ELSE DefaultGrace
        Request(b) ==
            IF b.exc # NoExc
              THEN Outcome(b.calls, b.exc, <<>>, b.cache)
              ELSE IF period.py # "str"
                     THEN Outcome(b.calls, PyExc("TypeError"), <<>>, b.cache)
                     ELSE Outcome(b.calls \o
                                    <<[api |-> "roll_group",
                                       arg |-> [batch_size_percentage |-> b.value,
                                                grace_period |->
                                                    DurationSeconds(period.text, 0, 0)]]>>,
                                  NoExc, <<>>, b.cache)
    IN CHOOSE out \in {Request(b) :
                         b \in {RollBatch(IF Truthy(batch) THEN batch ELSE DefaultBatch,
                                          cache, rem)}} : TRUE

(* Elastigroup.suspend and unsuspend.  For AUTO_SCALE_DOWN and             *)
(* AUTO_SCALE_UP the method evaluates ElastigroupProcess(process).value     *)
(* .rsplit("_", 1): the members are numbered by enum.auto(), value is an    *)
(* int, and the attribute lookup raises AttributeError before the policies  *)
(* are read.                                                                *)
SuspendOrUnsuspend(api, process, cache) ==
    IF process \in VirtualProcesses
      THEN Outcome(<<>>, PyExc("AttributeError"), <<>>, cache)
      ELSE Outcome(<<[api |-> api, arg |-> process]>>, NoExc, <<>>, cache)

Suspend(process, cache) == SuspendOrUnsuspend("suspend_process", process, cache)

Unsuspend(process, cache) == SuspendOrUnsuspend("remove_suspended_process", process, cache)

(* spot.list_suspended_process(id) and list_suspended_scaling_policies(id). *)
ListSuspendedProcess(rem) ==
    IF rem.suspended_processes = {} THEN <<>>
    ELSE <<[processes |-> rem.suspended_processes]>>

ListSuspendedScalingPolicies(rem) ==
    IF rem.suspended_policies = {} THEN <<>>
    ELSE <<[scale_policy_suspensions |-> rem.suspended_policies]>>

Range(f) == {f[i] : i \in DOMAIN f}

(* Variant of the status of one process that wants every policy suspended. *)
ProcessStatusAll(process, policies, suspended_processes, suspended_policies) ==
    IF process \in VirtualProcesses
      THEN IF policies[process] # {} /\ policies[process] \subseteq suspended_policies
             THEN "suspended" ELSE "active"
      ELSE IF process \in suspended_processes THEN "suspended" ELSE "active"

(* The status of one process in Elastigroup.processes. *)
ProcessStatus(process, policies, suspended_processes, suspended_policies) ==
    IF process \in VirtualProcesses
      THEN IF \E policy \in policies[process] : policy \in suspended_policies
             THEN "suspended" ELSE "active"
      ELSE IF process \in suspended_processes THEN "suspended" ELSE "active"

(* Elastigroup.processes *)
Processes(cache, rem) ==
    LET process_suspensions == ListSuspendedProcess(rem)
        policy_suspensions == ListSuspendedScalingPolicies(rem)
        g == Group(cache, rem)
        policies == [p \in VirtualProcesses |->
                        IF p = "AUTO_SCALE_DOWN" THEN Range(g.data.scaling.down)
                                                 ELSE Range(g.data.scaling.up)]
        suspended_processes ==
            IF process_suspensions # <<>> THEN process_suspensions[1].processes ELSE {}
        suspended_policies ==
            IF policy_suspensions # <<>>
              THEN policy_suspensions[1].scale_policy_suspensions ELSE {}
    IN Outcome(<<[api |-> "list_suspended_process", arg |-> <<>>],
                 [api |-> "list_suspended_scaling_policies", arg |-> <<>>]>> \o g.calls,
               NoExc,
               [p \in ElastigroupProcess |->
                   ProcessStatus(p, policies, suspended_processes, suspended_policies)],
               g.cache)

(* Elastigroup.status: the id, then name, capacity and processes, read in   *)
(* that order.                                                              *)
StatusOf(id, named, sized, shown) ==
    Outcome(named.calls \o sized.calls \o shown.calls, NoExc,
            [id |-> id, name |-> named.value, capacity |-> sized.value,
             processes |-> shown.value],
            shown.cache)

StatusSized(id, named, sized, rem) ==
    StatusOf(id, named, sized, Processes(sized.cache, rem))

StatusNamed(id, named, rem) ==
    StatusSized(id, named, Capacity(named.cache, rem), rem)

ElastigroupStatus(id, cache, rem) == StatusNamed(id, Name(cache, rem), rem)

(* Number of method calls on the handle in one run. *)
MaxOps == 2

(* The remote service.  A scale call moves the target within the limits of  *)
(* the group; update_elastigroup replaces the capacity fields it is given,  *)
(* and a target the new limits leave outside goes to the limit it exceeds   *)
(* (set_capacity); suspend_process and remove_suspended_process edit the    *)
(* suspended set.                                                           *)
Min(a, b) == IF a < b THEN a ELSE b
Max(a, b) == IF a > b THEN a ELSE b

(* n, or the limit it exceeds. *)
Within(n, limits) == Max(limits.minimum, Min(n, limits.maximum))

RemoteCall(rem, call) ==
    IF call.api = "scale_elastigroup_up"
      THEN [rem EXCEPT !.capacity.target = Within(@ + call.arg, rem.capacity)]
    ELSE IF call.api = "scale_elastigroup_down"
      THEN [rem EXCEPT !.capacity.target = Within(@ - call.arg, rem.capacity)]
    ELSE IF call.api = "update_elastigroup"
      THEN LET given == [f \in DOMAIN rem.capacity |->
                            IF f \in DOMAIN call.arg THEN call.arg[f] ELSE rem.capacity[f]]
           IN [rem EXCEPT !.capacity = [given EXCEPT !.target = Within(@, given)]]
    ELSE IF call.api = "suspend_process"
      THEN [rem EXCEPT !.suspended_processes = @ \cup {call.arg}]
    ELSE IF call.api = "remove_suspended_process"
      THEN [rem EXCEPT !.suspended_processes = @ \ {call.arg}]
    ELSE rem

RECURSIVE RemoteCalls(_, _)
RemoteCalls(rem, calls) ==
    IF calls = <<>> THEN rem ELSE RemoteCalls(RemoteCall(rem, Head(calls)), Tail(calls))

Fetches(calls) == Cardinality({i \in DOMAIN calls : calls[i].api = "get_elastigroup"})

(* One method call on the handle: its remote calls reach the service in    *)
(* order, its result and the descriptor cache are kept.                     *)
Method(name, arg, arg2, out) ==
    /\ gOps < MaxOps
    /\ gOps' = gOps + 1
    /\ gOp' = [name |-> name, arg |-> arg, arg2 |-> arg2]
    /\ gCalls' = out.calls
    /\ gRet' = [exc |-> out.exc, value |-> out.value]
    /\ gCache' = out.cache
    /\ gFetches' = gFetches + Fetches(out.calls)
    /\ gFirst' = IF ~gFirst.set /\ Fetches(out.calls) > 0
                   THEN [set |-> TRUE, data |-> Descriptor(gRemote)]
                   ELSE gFirst
    /\ gRemote' = RemoteCalls(gRemote, out.calls)
    /\ UNCHANGED <<runVars, cfgVars, resVars, fltVars, expVars, rceVars>>

Amounts ==
    {PyStr(<<"0", "%">>), PyStr(<<"1", "0", "%">>), PyStr(<<"2", "9", "%">>),
     PyStr(<<"0">>), PyStr(<<"1", "0">>), PyInt(<<"1", "0">>), PyInt(<<"0">>),
     PyStr(<<"-", "5">>), PyStr(<<" ", "+", "1", "_", "0", "%">>)}

Batches ==
    {PyNone, PyStr(<<>>), PyStr(<<"2", "0", "%">>), PyStr(<<"2", "0">>),
     PyInt(<<"2", "0">>), PyInt(<<"2", "9">>), PyStr(<<"+", "2", "0">>)}

Graces == {PyNone, PyStr(<<>>), PyStr(<<"1", "m", "4", "5", "s">>)}

SuspendableProcesses == {"AUTO_HEALING", "SCHEDULING", "AUTO_SCALE_DOWN", "AUTO_SCALE_UP"}

Capacities ==
    {[target |-> 50], [minimum |-> 0, maximum |-> 100, target |-> 50],
     [maximum |-> 40], [minimum |-> 120]}

scale_up ==
    \E amount \in Amounts :
        Method("scale_up", amount, PyNone,
               Scale("scale_elastigroup_up", amount, gCache, gRemote))

scale_down ==
    \E amount \in Amounts :
        Method("scale_down", amount, PyNone,
               Scale("scale_elastigroup_down", amount, gCache, gRemote))

roll ==
    \E batch \in Batches, grace \in Graces :
        Method("roll", batch, grace, Roll(batch, grace, gCache, gRemote))

suspend ==
    \E process \in SuspendableProcesses :
        Method("suspend", process, PyNone, Suspend(process, gCache))

unsuspend ==
    \E process \in SuspendableProcesses :
        Method("unsuspend", process, PyNone, Unsuspend(process, gCache))

set_capacity ==
    \E capacity \in Capacities :
        Method("set_capacity", capacity, PyNone, SetCapacity(capacity, gCache))

capacity == Method("capacity", PyNone, PyNone, Capacity(gCache, gRemote))

group_name == Method("name", PyNone, PyNone, Name(gCache, gRemote))

status == Method("status", PyNone, PyNone, ElastigroupStatus("sig-1", gCache, gRemote))

processes == Method("processes", PyNone, PyNone, Processes(gCache, gRemote))

GroupTargets == {0, 3, 100}

ScalingPolicies ==
    {[down |-> <<>>, up |-> <<>>],
     [down |-> <<"SCALING_POLICY_DOWN_1", "SCALING_POLICY_DOWN_2">>,
      up |-> <<"SCALING_POLICY_UP_1">>]}

SuspendedProcesses == {{}, {"AUTO_HEALING"}}

SuspendedPolicies ==
    {{}, {"SCALING_POLICY_DOWN_1"}, {"SCALING_POLICY_UP_1"}}

InitGroup ==
    /\ \E t \in GroupTargets, s \in ScalingPolicies :
           \E sp \in SuspendedProcesses, sl \in SuspendedPolicies :
               gRemote = [name |-> <<"a", "b">>,
                          capacity |-> [minimum |-> 0, maximum |-> 200, target |-> t],
                          down |-> s.down, up |-> s.up,
                          suspended_processes |-> sp, suspended_policies |-> sl]
    /\ gCache = [set |-> FALSE, data |-> <<>>]
    /\ gFirst = [set |-> FALSE, data |-> <<>>]
    /\ gFetches = 0
    /\ gOp = [name |-> "none", arg |-> PyNone, arg2 |-> PyNone]
    /\ gCalls = <<>>
    /\ gRet = [exc |-> NoExc, value |-> <<>>]
    /\ gOps = 0
    /\ RunIdle
    /\ CfgIdle
    /\ ResIdle
    /\ FltIdle
    /\ ExpIdle
    /\ RceIdle

NextGroup ==
    \/ scale_up
    \/ scale_down
    \/ roll
    \/ suspend
    \/ unsuspend
    \/ set_capacity
    \/ capacity
    \/ group_name
    \/ status
    \/ processes

SpecGroup == InitGroup /\ [][NextGroup]_vars

-----------------------------------------------------------------------------
(* One CLI invocation: the table of targets, the question, then the Tasks   *)
(* and their threads.  The groups the patterns of the command match are     *)
(* numbered 1..n; every TargetList of the command makes its own handles.    *)

(* A remote call of the main thread: the API, and the TargetList and the    *)
(* target it is issued for (0 for the listing of the account).              *)
TableCall(api, list, target) == [api |-> api, list |-> list, target |-> target]

(* The remote calls of one table row.  cli.status with --show-processes     *)
(* reads target.processes first; target.name reads the descriptor, which    *)
(* target.capacity then finds cached.                                       *)
RowCalls(processes_shown, list, target) ==
    IF processes_shown
      THEN <<TableCall("list_suspended_process", list, target),
             TableCall("list_suspended_scaling_policies", list, target),
             TableCall("get_elastigroup", list, target)>>
      ELSE <<TableCall("get_elastigroup", list, target)>>

(* The rows from row t of list i on, list after list. *)
RECURSIVE RowsFrom(_, _, _, _)
RowsFrom(sizes, processes_shown, i, t) ==
    IF i > Len(sizes)
      THEN <<>>
      ELSE IF t > sizes[i]
             THEN RowsFrom(sizes, processes_shown, i + 1, 1)
             ELSE RowCalls(processes_shown, i, t)
                    \o RowsFrom(sizes, processes_shown, i, t + 1)

(* The remote calls of the tables when nothing fails: the first TargetList  *)
(* read lists the account (Elastigroup.find), every row fetches the         *)
(* descriptor of its handle.                                                *)
TableCalls(sizes, processes_shown) ==
    IF sizes = <<>>
      THEN <<>>
      ELSE <<TableCall("get_elastigroups", 0, 0)>> \o RowsFrom(sizes, processes_shown, 1, 1)

(* What can go wrong while the tables are built: the remote call number     *)
(* `call` fails, or the pattern of list number `pattern` does not compile.  *)
NoFault == [call |-> 0, pattern |-> 0]

TableFaults(sizes, processes_shown) ==
    {NoFault}
    \cup {[call |-> j, pattern |-> 0] : j \in 1..Len(TableCalls(sizes, processes_shown))}
    \cup {[call |-> 0, pattern |-> i] : i \in 1..Len(sizes)}

(* The tables of a command: the calls issued, the first included that       *)
(* failed; the exception that escapes; whether the directory was stored on  *)
(* the class; the handles whose descriptor was fetched.  An exception       *)
(* inside TargetList.data (the listing, re.compile) is replaced by the      *)
(* UnboundLocalError of its finally clause.                                 *)
Tables(sizes, processes_shown, fault, remote_groups) ==
    LET planned == TableCalls(sizes, processes_shown)
        upto == IF fault.call > 0 THEN fault.call
                ELSE IF fault.pattern > 0
                  THEN Cardinality({j \in DOMAIN planned : planned[j].list < fault.pattern})
                  ELSE Len(planned)
        answered == IF fault.call > 0 THEN upto - 1 ELSE upto
        fetched(i, t) ==
            \E j \in 1..answered :
                planned[j] = TableCall("get_elastigroup", i, t)
    IN [calls |-> SubSeq(planned, 1, upto),
        exc |-> IF fault.pattern > 0 \/ fault.call = 1
                  THEN PyExc("UnboundLocalError")
                  ELSE IF fault.call > 1 THEN PyExc("SpotinstClientException") ELSE NoExc,
        listed |-> answered >= 1,
        handles |-> [i \in DOMAIN sizes |->
                        [t \in 1..sizes[i] |->
                            IF fetched(i, t)
                              THEN [set |-> TRUE, data |-> Descriptor(remote_groups[t])]
                              ELSE [set |-> FALSE, data |-> <<>>]]]]

(* The effect of the tables on the process. *)
ShowTables(sizes, processes_shown, after) ==
    \E fault \in TableFaults(sizes, processes_shown) :
        LET out == Tables(sizes, processes_shown, fault, remoteGroups)
        IN /\ issued' = out.calls
           /\ escaped' = out.exc
           /\ handles' = out.handles
           /\ elastigroups' = IF out.listed
                                THEN [set |-> TRUE, map |-> [t \in DOMAIN remoteGroups |-> t]]
                                ELSE elastigroups
           /\ listCalls' = IF out.calls # <<>> THEN 1 ELSE 0
           /\ pc' = IF out.exc = NoExc THEN after ELSE "raised"

ResolutionFrame ==
    UNCHANGED <<remote, aliases, targets, query, resolved, rexc, rpc, impl, listed, fexc,
                changes, lists>>

(* cli.action lines 340-349, cli.run lines 124-134: the tables of targets,  *)
(* one per Task.                                                            *)
ShowTargets ==
    /\ pc = "start"
    /\ cmd # "status"
    /\ ShowTables([i \in DOMAIN tasks |-> tasks[i].ntargets], FALSE, "confirm")
    /\ UNCHANGED <<cmd, auto_approve, tasks, approval, k, started, joined, threads, pool, hung,
                   remoteGroups, statusArgs>>
    /\ ResolutionFrame
    /\ UNCHANGED <<cfgVars, fltVars, grpVars, expVars, rceVars>>

(* cli.status: the table of the groups, and nothing after it. *)
Status ==
    /\ pc = "start"
    /\ cmd = "status"
    /\ ShowTables(<<statusArgs.ntargets>>, statusArgs.show_processes, "done")
    /\ UNCHANGED <<cmd, auto_approve, tasks, approval, k, started, joined, threads, pool, hung,
                   remoteGroups, statusArgs>>
    /\ ResolutionFrame
    /\ UNCHANGED <<cfgVars, fltVars, grpVars, expVars, rceVars>>

(* cli.action line 350, cli.run line 135. *)
Approve ==
    /\ pc = "confirm"
    /\ \E answer \in BOOLEAN :
         /\ auto_approve => answer
         /\ approval' = IF auto_approve THEN "auto" ELSE IF answer THEN "yes" ELSE "no"
         /\ pc' = IF Approved(auto_approve, answer) THEN "run" ELSE "aborted"
         /\ escaped' = IF Approved(auto_approve, answer) THEN NoExc ELSE PyExc("Abort")
    /\ UNCHANGED <<cmd, auto_approve, tasks, k, started, joined, threads, pool, hung,
                   remoteGroups, handles, issued, statusArgs>>
    /\ UNCHANGED <<cfgVars, resVars, fltVars, grpVars, expVars, rceVars>>

(* Task.run: thread.start() of the next unit of Task k. *)
StartThread ==
    /\ pc = "run"
    /\ started < Len(threads[k])
    /\ threads' = [threads EXCEPT ![k][started + 1].st = "running"]
    /\ started' = started + 1
    /\ UNCHANGED <<cmd, auto_approve, tasks, pc, approval, k, joined, pool, hung,
                   remoteGroups, handles, issued, escaped, statusArgs>>
    /\ UNCHANGED <<cfgVars, resVars, fltVars, grpVars, expVars, rceVars>>

(* The method of the handle that work() of the Task calls for a unit. *)
UnitCall(task, unit, cache, rem) ==
    IF task.kind = "roll" THEN Roll(task.param, task.grace, cache, rem)
    ELSE IF task.kind = "upscale" THEN Scale("scale_elastigroup_up", task.param, cache, rem)
    ELSE IF task.kind = "downscale" THEN Scale("scale_elastigroup_down", task.param, cache, rem)
    ELSE IF task.kind = "suspend" THEN Suspend(unit.process, cache)
    ELSE Unsuspend(unit.process, cache)

(* work() up to the remote call of its action: the thread dies on an        *)
(* unknown process; otherwise the method runs until it raises, returns      *)
(* without a call, or has sent its request.                                 *)
Invoke(i, u) ==
    /\ threads[i][u].st = "running"
    /\ threads[i][u].invoked = 0
    /\ LET unit == Units(tasks[i])[u]
       IN IF WorkOutcome(tasks[i], unit, FALSE).st = "crashed"
            THEN /\ threads' = [threads EXCEPT ![i][u] =
                                   WorkOutcome(tasks[i], unit, FALSE)
                                     @@ [calls |-> <<>>, exc |-> PyExc("KeyError")]]
                 /\ UNCHANGED handles
            ELSE \E out \in {UnitCall(tasks[i], unit, handles[i][unit.target],
                                       remoteGroups[unit.target])} :
                    /\ threads' = [threads EXCEPT ![i][u].invoked = 1,
                                                  ![i][u].calls = out.calls,
                                                  ![i][u].exc = out.exc]
                    /\ handles' = [handles EXCEPT ![i][unit.target] = out.cache]
    /\ UNCHANGED <<cmd, auto_approve, tasks, pc, approval, k, started, joined, pool, hung,
                   remoteGroups, issued, escaped, statusArgs>>
    /\ UNCHANGED <<cfgVars, resVars, fltVars, grpVars, expVars, rceVars>>

(* The rest of work(): the remote service answers, with an error or not,    *)
(* and the outcome is printed.  A request to a target that never answers    *)
(* keeps its thread waiting.                                                *)
Report(i, u) ==
    /\ threads[i][u].st = "running"
    /\ threads[i][u].invoked = 1
    /\ LET unit == Units(tasks[i])[u]
           thread == threads[i][u]
       IN /\ thread.calls # <<>> => unit.target \notin hung
          /\ \E refused \in BOOLEAN :
               /\ refused => (thread.calls # <<>> /\ thread.exc = NoExc)
               /\ threads' = [threads EXCEPT ![i][u] =
                                 WorkOutcome(tasks[i], unit, refused \/ thread.exc # NoExc)
                                   @@ [calls |-> thread.calls,
                                       exc |-> IF refused
                                                 THEN PyExc("SpotinstClientException")
                                                 ELSE thread.exc]]
               /\ remoteGroups' = IF refused
                              THEN remoteGroups
                              ELSE [remoteGroups EXCEPT ![unit.target] =
                                       RemoteCalls(@, thread.calls)]
    /\ UNCHANGED <<cmd, auto_approve, tasks, pc, approval, k, started, joined, pool, hung,
                   handles, issued, escaped, statusArgs>>
    /\ UNCHANGED <<cfgVars, resVars, fltVars, grpVars, expVars, rceVars>>

(* Task.run: thread.join() of the next thread, once all are started. *)
Join ==
    /\ pc = "run"
    /\ started = Len(threads[k])
    /\ joined < Len(threads[k])
    /\ JoinReady(threads[k][joined + 1])
    /\ joined' = joined + 1
    /\ UNCHANGED <<cmd, auto_approve, tasks, pc, approval, k, started, threads, pool, hung,
                   remoteGroups, handles, issued, escaped, statusArgs>>
    /\ UNCHANGED <<cfgVars, resVars, fltVars, grpVars, expVars, rceVars>>

(* Variant of the return of Task.run in which a failed unit ends the        *)
(* Scenario.                                                                *)
TaskReturnStopsOnFailure ==
    /\ pc = "run"
    /\ started = Len(threads[k])
    /\ joined = Len(threads[k])
    /\ pc' = IF \E u \in 1..Len(threads[k]) : threads[k][u].report = "failed"
             THEN "done" ELSE AfterTask(k, Len(tasks)).pc
    /\ k' = AfterTask(k, Len(tasks)).k
    /\ started' = 0
    /\ joined' = 0
    /\ UNCHANGED <<cmd, auto_approve, tasks, approval, threads, pool, hung,
                   remoteGroups, handles, issued, escaped, statusArgs>>
    /\ UNCHANGED <<cfgVars, resVars, fltVars, grpVars, expVars, rceVars>>

(* Task.run returns and Scenario.run goes on to the next Task. *)
TaskReturn ==
    /\ pc = "run"
    /\ started = Len(threads[k])
    /\ joined = Len(threads[k])
    /\ pc' = AfterTask(k, Len(tasks)).pc
    /\ k' = AfterTask(k, Len(tasks)).k
    /\ started' = 0
    /\ joined' = 0
    /\ UNCHANGED <<cmd, auto_approve, tasks, approval, threads, pool, hung,
                   remoteGroups, handles, issued, escaped, statusArgs>>
    /\ UNCHANGED <<cfgVars, resVars, fltVars, grpVars, expVars, rceVars>>

-----------------------------------------------------------------------------
(* Inputs of an invocation. *)

Pct == <<"2", "0", "%">>
Num == <<"2", "0">>

(* Options of the CLI are click.STRING. *)
CliParams == {PyStr(Pct), PyStr(Num)}

(* Values of a scenario file are what YAML gives: str or int. *)
YamlParams == CliParams \cup {PyInt(Num)}

(* --processes is a click.Choice of the member names. *)
CliProcesses == {<<"AUTO_HEALING">>, <<"AUTO_HEALING", "AUTO_SCALE_DOWN">>}

YamlProcesses == CliProcesses \cup {<<"BOGUS">>, <<"AUTO_HEALING", "BOGUS">>}

NoParam == PyStr(<<>>)

(* A Task: grace is the default "" of RollTask unless the caller sets it. *)
MkTask(kind, n, param, names) ==
    [kind |-> kind, ntargets |-> n,
     param |-> IF kind \in ProcessTaskKinds THEN NoParam ELSE param,
     grace |-> NoParam,
     processes |-> IF kind \in ProcessTaskKinds THEN names ELSE <<>>]

(* The kinds of the Tasks of a scenario: one Task of any kind, or two Tasks *)
(* of a kind that takes an amount and a kind that takes processes.          *)
ScenarioKinds ==
    {<<a>> : a \in TaskKinds} \cup {<<a, b>> : a, b \in {"roll", "suspend"}}

(* The Tasks of the commands; spotcli roll passes its --grace, "5m" unless  *)
(* given; status makes no Task.                                             *)
CliTasks(n) ==
    [roll      |-> {<<[MkTask("roll", n, p, <<>>) EXCEPT !.grace = DefaultGrace]>> :
                       p \in CliParams},
     scale     |-> {<<MkTask(kd, n, p, <<>>)>> : kd \in {"upscale", "downscale"}, p \in CliParams},
     suspend   |-> {<<MkTask("suspend", n, NoParam, ps)>> : ps \in CliProcesses},
     unsuspend |-> {<<MkTask("unsuspend", n, NoParam, ps)>> : ps \in CliProcesses},
     run       |-> {[i \in 1..Len(ks) |-> MkTask(ks[i], n, p, ps)] :
                       ks \in ScenarioKinds, p \in YamlParams, ps \in YamlProcesses},
     status    |-> {<<>>}]

Commands == {"roll", "scale", "suspend", "unsuspend", "run", "status"}

InitThreads(ts) == [i \in 1..Len(ts) |-> [u \in 1..Len(Units(ts[i])) |-> NewThread]]

(* The target capacities of the remote groups of an invocation. *)
InvocationTargets == {0, 100}

(* A remote group with no scaling policy and nothing suspended. *)
RemoteGroup(target) ==
    [name |-> <<"a", "b">>,
     capacity |-> [minimum |-> 0, maximum |-> 200, target |-> target],
     down |-> <<>>, up |-> <<>>,
     suspended_processes |-> {}, suspended_policies |-> {}]

(* n remote groups, no handle yet, nothing asked of the remote service. *)
InitRemote(n, capacities) ==
    /\ \E c \in capacities : remoteGroups = [t \in 1..n |-> RemoteGroup(c)]
    /\ handles = <<>>
    /\ issued = <<>>
    /\ escaped = NoExc
    /\ statusArgs \in IF cmd = "status"
                        THEN {[ntargets |-> n, show_processes |-> b] : b \in BOOLEAN}
                        ELSE {[ntargets |-> 0, show_processes |-> FALSE]}

InitCommon ==
    /\ auto_approve \in BOOLEAN
    /\ pc = "start"
    /\ approval = "none"
    /\ k = 1
    /\ started = 0
    /\ joined = 0
    /\ threads = InitThreads(tasks)
    /\ pool = EmptyBag

(* An invocation over at most MaxTargets targets, all of which answer. *)
InitSmall ==
    /\ cmd \in Commands
    /\ \E n \in 0..MaxTargets :
           /\ tasks \in CliTasks(n)[cmd]
           /\ InitRemote(n, InvocationTargets)
    /\ hung = {}
    /\ InitCommon

Init ==
    InitSmall /\ CfgIdle /\ ResIdle /\ FltIdle /\ GrpIdle /\ ExpIdle /\ RceIdle

Next ==
    \/ ShowTargets
    \/ Status
    \/ Approve
    \/ StartThread
    \/ \E i \in 1..Len(threads) : \E u \in 1..Len(threads[i]) : Invoke(i, u)
    \/ \E i \in 1..Len(threads) : \E u \in 1..Len(threads[i]) : Report(i, u)
    \/ Join
    \/ TaskReturn

Spec == Init /\ [][Next]_vars

(* Scenarios of two Tasks, one that takes an amount and one that takes      *)
(* processes, in both orders; the CLI commands cover the other kinds.       *)
FairScenarios(n) ==
    {[i \in 1..Len(ks) |-> MkTask(ks[i], n, p, ps)] :
        ks \in {<<"roll", "suspend">>, <<"suspend", "roll">>},
        p \in {PyStr(Pct), PyInt(Num)},
        ps \in {<<"AUTO_HEALING">>, <<"BOGUS">>}}

(* An invocation one of whose targets may never answer, run by an           *)
(* interpreter that keeps scheduling the main thread and every started      *)
(* thread.                                                                  *)
InitFair ==
    /\ cmd \in Commands
    /\ \E n \in 0..MaxTargets :
           /\ tasks \in IF cmd = "run" THEN FairScenarios(n) ELSE CliTasks(n)[cmd]
           /\ hung \in {{}} \cup {{t} : t \in 1..n}
           /\ InitRemote(n, {100})
    /\ InitCommon
    /\ CfgIdle
    /\ ResIdle
    /\ FltIdle
    /\ GrpIdle
    /\ ExpIdle
    /\ RceIdle

SpecFair == InitFair /\ [][Next]_vars /\ WF_vars(Next)

(* A Task with more units than PARALLEL_THREADS.  Its groups are alike and  *)
(* so are its units, and the state keeps the threads started as a bag: how  *)
(* many threads are at each position of work(), not which.  The threads run *)
(* in any order; a step of any one of them is the step of a thread of the   *)
(* bag at the same position.                                                *)

(* The threads of the bag that satisfy a test. *)
Those(bag, Test(_)) == [thread \in {t \in BagToSet(bag) : Test(t)} |-> bag[thread]]

(* The bag once one thread at a position has moved to another. *)
Moved(bag, from, to) == (bag (-) SetToBag({from})) (+) SetToBag({to})

Running(thread) == thread.st = "running"

(* A roll over one target more than PARALLEL_THREADS, none of which         *)
(* answers.                                                                 *)
InitLarge ==
    /\ cmd = "roll"
    /\ tasks \in CliTasks(PARALLEL_THREADS + 1)["roll"]
    /\ InitRemote(PARALLEL_THREADS + 1, InvocationTargets)
    /\ hung = 1..(PARALLEL_THREADS + 1)
    /\ auto_approve \in BOOLEAN
    /\ pc = "start"
    /\ approval = "none"
    /\ k = 1
    /\ started = 0
    /\ joined = 0
    /\ threads = <<>>
    /\ pool = EmptyBag
    /\ CfgIdle
    /\ ResIdle
    /\ FltIdle
    /\ GrpIdle
    /\ ExpIdle
    /\ RceIdle

(* Task.run: thread.start() of the next unit of Task k. *)
PoolStart ==
    /\ pc = "run"
    /\ started < Len(Units(tasks[k]))
    /\ pool' = pool (+) SetToBag({[NewThread EXCEPT !.st = "running"]})
    /\ started' = started + 1
    /\ UNCHANGED <<cmd, auto_approve, tasks, pc, approval, k, joined, threads, hung,
                   remoteGroups, handles, issued, escaped, statusArgs>>
    /\ UNCHANGED <<cfgVars, resVars, fltVars, grpVars, expVars, rceVars>>

(* work() of a started thread up to the remote call of its action, as in    *)
(* Invoke.                                                                  *)
PoolInvoke ==
    \E thread \in BagToSet(pool) : \E unit \in {Units(tasks[k])[u] : u \in 1..started} :
        /\ Running(thread)
        /\ thread.invoked = 0
        /\ IF WorkOutcome(tasks[k], unit, FALSE).st = "crashed"
             THEN /\ pool' = Moved(pool, thread,
                                   WorkOutcome(tasks[k], unit, FALSE)
                                     @@ [calls |-> <<>>, exc |-> PyExc("KeyError")])
                  /\ UNCHANGED handles
             ELSE \E out \in {UnitCall(tasks[k], unit, handles[k][unit.target],
                                        remoteGroups[unit.target])} :
                     /\ pool' = Moved(pool, thread,
                                      [thread EXCEPT !.invoked = 1,
                                                     !.calls = out.calls,
                                                     !.exc = out.exc])
                     /\ handles' = [handles EXCEPT ![k][unit.target] = out.cache]
        /\ UNCHANGED <<cmd, auto_approve, tasks, pc, approval, k, started, joined,
                       threads, hung, remoteGroups, issued, escaped, statusArgs>>
        /\ UNCHANGED <<cfgVars, resVars, fltVars, grpVars, expVars, rceVars>>

(* The rest of work() of a thread that has invoked its action, as in        *)
(* Report.                                                                  *)
PoolReport ==
    \E thread \in BagToSet(pool) : \E unit \in {Units(tasks[k])[u] : u \in 1..started} :
        /\ Running(thread)
        /\ thread.invoked = 1
        /\ thread.calls # <<>> => unit.target \notin hung
        /\ \E refused \in BOOLEAN :
             /\ refused => (thread.calls # <<>> /\ thread.exc = NoExc)
             /\ pool' = Moved(pool, thread,
                              WorkOutcome(tasks[k], unit, refused \/ thread.exc # NoExc)
                                @@ [calls |-> thread.calls,
                                    exc |-> IF refused
                                              THEN PyExc("SpotinstClientException")
                                              ELSE thread.exc])
             /\ remoteGroups' = IF refused
                            THEN remoteGroups
                            ELSE [remoteGroups EXCEPT ![unit.target] =
                                     RemoteCalls(@, thread.calls)]
        /\ UNCHANGED <<cmd, auto_approve, tasks, pc, approval, k, started, joined,
                       threads, hung, handles, issued, escaped, statusArgs>>
        /\ UNCHANGED <<cfgVars, resVars, fltVars, grpVars, expVars, rceVars>>

(* Task.run: thread.join() of the next thread of the list, once all are     *)
(* started.  The threads before it have terminated, so that it has          *)
(* terminated only if more threads have than were joined.                   *)
PoolJoin ==
    /\ pc = "run"
    /\ started = Len(Units(tasks[k]))
    /\ joined < started
    /\ joined < BagCardinality(Those(pool, JoinReady))
    /\ joined' = joined + 1
    /\ UNCHANGED <<cmd, auto_approve, tasks, pc, approval, k, started, threads, pool, hung,
                   remoteGroups, handles, issued, escaped, statusArgs>>
    /\ UNCHANGED <<cfgVars, resVars, fltVars, grpVars, expVars, rceVars>>

(* Task.run returns and Scenario.run goes on to the next Task. *)
PoolReturn ==
    /\ pc = "run"
    /\ started = Len(Units(tasks[k]))
    /\ joined = started
    /\ pc' = AfterTask(k, Len(tasks)).pc
    /\ k' = AfterTask(k, Len(tasks)).k
    /\ started' = 0
    /\ joined' = 0
    /\ UNCHANGED <<cmd, auto_approve, tasks, approval, threads, pool, hung,
                   remoteGroups, handles, issued, escaped, statusArgs>>
    /\ UNCHANGED <<cfgVars, resVars, fltVars, grpVars, expVars, rceVars>>

NextLarge ==
    \/ ShowTargets
    \/ Approve
    \/ PoolStart
    \/ PoolInvoke
    \/ PoolReport
    \/ PoolJoin
    \/ PoolReturn

SpecLarge == InitLarge /\ [][NextLarge]_vars

-----------------------------------------------------------------------------
(* The threads of one SuspendTask or UnsuspendTask whose units share one    *)
(* Elastigroup handle: each calls suspend(process) and then formats its     *)
(* message with target.name, which reads the descriptor through _group.     *)
(* The read is three steps: the lookup of _group_data and, when that is not *)
(* set, the get_elastigroup() call and the assignment of its answer.        *)

SharedProcesses ==
    {<<"AUTO_HEALING">>, <<"AUTO_HEALING", "SCHEDULING">>,
     <<"AUTO_HEALING", "AUTO_SCALE_DOWN">>, <<"AUTO_SCALE_UP", "AUTO_SCALE_DOWN">>}

(* The handle is new, or its name was read before the task ran (the table   *)
(* of targets the CLI shows first).                                         *)
InitShared ==
    /\ \E t \in GroupTargets, s \in ScalingPolicies :
           \E sp \in SuspendedProcesses, sl \in SuspendedPolicies :
               gRemote = [name |-> <<"a", "b">>,
                          capacity |-> [minimum |-> 0, maximum |-> 200, target |-> t],
                          down |-> s.down, up |-> s.up,
                          suspended_processes |-> sp, suspended_policies |-> sl]
    /\ \E shown \in BOOLEAN :
           /\ gCache = IF shown THEN [set |-> TRUE, data |-> Descriptor(gRemote)]
                                ELSE [set |-> FALSE, data |-> <<>>]
           /\ gFirst = gCache
           /\ gFetches = IF shown THEN 1 ELSE 0
    /\ gOp = [name |-> "none", arg |-> PyNone, arg2 |-> PyNone]
    /\ gCalls = <<>>
    /\ gRet = [exc |-> NoExc, value |-> <<>>]
    /\ gOps = 0
    /\ \E ps \in SharedProcesses :
           units = [u \in DOMAIN ps |->
                       [process |-> ps[u], pc |-> "call", report |-> "none",
                        answer |-> <<>>]]
    /\ RunIdle
    /\ CfgIdle
    /\ ResIdle
    /\ FltIdle
    /\ ExpIdle

(* work(): target.suspend(process) inside the try. *)
UnitSuspend(u) ==
    /\ units[u].pc = "call"
    /\ LET out == Suspend(units[u].process, gCache)
       IN /\ gRemote' = RemoteCalls(gRemote, out.calls)
          /\ gCalls' = gCalls \o out.calls
          /\ units' = [units EXCEPT ![u].pc = "name",
                                    ![u].report = IF out.exc = NoExc THEN "ok" ELSE "failed"]
    /\ UNCHANGED <<gCache, gFirst, gFetches, gOp, gRet, gOps>>
    /\ UNCHANGED <<runVars, cfgVars, resVars, fltVars, expVars>>

(* target.name in the message: _group looks _group_data up. *)
NameLookup(u) ==
    /\ units[u].pc = "name"
    /\ units' = [units EXCEPT ![u].pc = IF gCache.set THEN "done" ELSE "fetch"]
    /\ UNCHANGED grpVars
    /\ UNCHANGED <<runVars, cfgVars, resVars, fltVars, expVars>>

(* _group after AttributeError: self.spot.get_elastigroup(self.id), whose   *)
(* answer the thread holds.                                                 *)
NameFetch(u) ==
    /\ units[u].pc = "fetch"
    /\ gFetches' = gFetches + 1
    /\ gCalls' = Append(gCalls, [api |-> "get_elastigroup", arg |-> <<>>])
    /\ units' = [units EXCEPT ![u].pc = "store", ![u].answer = Descriptor(gRemote)]
    /\ UNCHANGED <<gCache, gFirst, gRemote, gOp, gRet, gOps>>
    /\ UNCHANGED <<runVars, cfgVars, resVars, fltVars, expVars>>

(* self._group_data = the answer, and the name is read from it. *)
NameStore(u) ==
    /\ units[u].pc = "store"
    /\ gCache' = [set |-> TRUE, data |-> units[u].answer]
    /\ gFirst' = IF gFirst.set THEN gFirst ELSE [set |-> TRUE, data |-> units[u].answer]
    /\ units' = [units EXCEPT ![u].pc = "done"]
    /\ UNCHANGED <<gRemote, gFetches, gCalls, gOp, gRet, gOps>>
    /\ UNCHANGED <<runVars, cfgVars, resVars, fltVars, expVars>>

NextShared ==
    \E u \in DOMAIN units :
        UnitSuspend(u) \/ NameLookup(u) \/ NameFetch(u) \/ NameStore(u)

SpecShared == InitShared /\ [][NextShared]_vars

-----------------------------------------------------------------------------
(* reduce() of TargetList.data as the interpreter runs it: one call frame   *)
(* per call in progress, one iteration of a for loop per step.              *)

(* sys.getrecursionlimit() of CPython: the frames the interpreter lets a    *)
(* thread nest.                                                             *)
RecursionLimit == 1000

(* The frames in use when data calls reduce(): data and its caller at the   *)
(* least.                                                                   *)
MinCallerFrames == 2
MaxCallerFrames == 20

(* The frames `for item in array` nests when array is an Alias: a UserList  *)
(* is iterated by Sequence.__iter__, which calls __getitem__, which reads   *)
(* the data property.  A list is iterated without a frame.                  *)
IterationFrames == 3

(* if isinstance(array, str): array = [array]; an Alias iterates its data. *)
Items(array) == IF array.str THEN <<array>> ELSE array.kids

(* Variant of the loop body that takes every string for a pattern. *)
ReduceBodyLiteral(item, als) ==
    IF item.str
      THEN [call |-> FALSE, alias |-> FALSE, array |-> <<>>, pattern |-> item.s]
      ELSE [call |-> TRUE, alias |-> FALSE, array |-> Items(item), pattern |-> <<>>]

(* The body of the for loop: which call it makes, and whether with an       *)
(* Alias, or what it appends.                                               *)
ReduceBody(item, als) ==
    IF item.str
      THEN IF item.s \in DOMAIN als
             THEN [call |-> TRUE, alias |-> TRUE,
                   array |-> als[item.s].targets, pattern |-> <<>>]
             ELSE [call |-> FALSE, alias |-> FALSE, array |-> <<>>, pattern |-> item.s]
      ELSE [call |-> TRUE, alias |-> FALSE, array |-> Items(item), pattern |-> <<>>]

(* Alias tables with a cycle: an alias naming itself, two naming each       *)
(* other, one naming itself three lists deep.                               *)
CyclicTables ==
    {<<"x">> :> Alias(<<"x">>, <<Leaf(<<"a", "b">>), Leaf(<<"x">>)>>),
     (<<"x">> :> Alias(<<"x">>, <<Leaf(<<"y">>)>>))
       @@ (<<"y">> :> Alias(<<"y">>, <<Leaf(<<"x">>), Leaf(<<"a", "b">>)>>)),
     <<"x">> :> Alias(<<"x">>,
                      <<List(<<List(<<List(<<Leaf(<<"x">>)>>)>>)>>)>>)}

(* Tokens for the cyclic tables: an alias alone, after a pattern, inside a  *)
(* list, and a pattern alone.                                               *)
CyclicTokens ==
    {Leaf(<<"x">>),
     List(<<Leaf(<<"a", "b">>), Leaf(<<"y">>)>>),
     List(<<Leaf(<<"b", "$">>), List(<<Leaf(<<"x">>)>>)>>),
     Leaf(<<"a", "b">>)}

ExpandInputs == ResolveInputs \cup (CyclicTables \X CyclicTokens)

InitExpand ==
    /\ \E inp \in ExpandInputs : aliases = inp[1] /\ targets = inp[2]
    /\ remote = <<>>
    /\ elastigroups = [set |-> FALSE, map |-> <<>>]
    /\ query = <<>>
    /\ resolved = <<>>
    /\ rexc = NoExc
    /\ rpc = "idle"
    /\ listCalls = 0
    /\ impl = "cli"
    /\ listed = <<>>
    /\ fexc = NoExc
    /\ changes = 0
    /\ lists = 1
    /\ xFrames \in MinCallerFrames .. MaxCallerFrames
    /\ xStack = <<>>
    /\ xResult = <<>>
    /\ xpc = "start"
    /\ RunIdle
    /\ CfgIdle
    /\ FltIdle
    /\ GrpIdle
    /\ RceIdle

ExpandFrame ==
    UNCHANGED <<runVars, cfgVars, resVars, fltVars, grpVars, rceVars, xFrames>>

(* A call in progress: the array is an Alias or a list, and the items the   *)
(* loop has left.                                                           *)
Call(isAlias, items) == [alias |-> isAlias, left |-> items]

(* The innermost call, and the stack once its loop took an item. *)
Top == xStack[Len(xStack)]
Advanced == [xStack EXCEPT ![Len(xStack)] = Call(@.alias, Tail(@.left))]

(* The interpreter has the frames left to iterate the array of the          *)
(* innermost call, and to make one more call from it.                       *)
CanIterate ==
    Top.alias => xFrames + Len(xStack) + IterationFrames <= RecursionLimit
CanCall == xFrames + Len(xStack) + 1 <= RecursionLimit

(* reduce(self.targets): the first call, with a fresh result list. *)
ReduceEnter ==
    /\ xpc = "start"
    /\ xStack' = <<Call(FALSE, Items(targets))>>
    /\ xResult' = <<>>
    /\ xpc' = "run"
    /\ ExpandFrame

(* result.append(item) *)
ReduceAppend ==
    /\ xpc = "run"
    /\ CanIterate
    /\ Top.left # <<>>
    /\ ~ReduceBody(Head(Top.left), aliases).call
    /\ xResult' = Append(xResult, ReduceBody(Head(Top.left), aliases).pattern)
    /\ xStack' = Advanced
    /\ UNCHANGED xpc
    /\ ExpandFrame

(* reduce(self.aliases[item], result) or reduce(item, result) *)
ReduceRecurse ==
    /\ xpc = "run"
    /\ CanIterate
    /\ Top.left # <<>>
    /\ ReduceBody(Head(Top.left), aliases).call
    /\ CanCall
    /\ xStack' = Append(Advanced,
                        Call(ReduceBody(Head(Top.left), aliases).alias,
                             ReduceBody(Head(Top.left), aliases).array))
    /\ UNCHANGED <<xResult, xpc>>
    /\ ExpandFrame

(* for item in array, on an Alias, with the interpreter's stack exhausted:  *)
(* the RecursionError comes out of the iteration, before the body of the    *)
(* loop has run once in this call.  It unwinds every frame, and data, whose *)
(* finally returns the unbound targets, raises.                             *)
IterateOverflow ==
    /\ xpc = "run"
    /\ ~CanIterate
    /\ xStack' = <<>>
    /\ xpc' = "raised"
    /\ UNCHANGED xResult
    /\ ExpandFrame

(* The call of reduce() from a list with the stack exhausted: the same      *)
(* RecursionError, raised by the call.                                      *)
ReduceOverflow ==
    /\ xpc = "run"
    /\ CanIterate
    /\ Top.left # <<>>
    /\ ReduceBody(Head(Top.left), aliases).call
    /\ ~CanCall
    /\ xStack' = <<>>
    /\ xpc' = "raised"
    /\ UNCHANGED xResult
    /\ ExpandFrame

(* return result: the loop of the innermost call is over. *)
ReduceReturn ==
    /\ xpc = "run"
    /\ CanIterate
    /\ Top.left = <<>>
    /\ xStack' = SubSeq(xStack, 1, Len(xStack) - 1)
    /\ xpc' = IF Len(xStack) = 1 THEN "done" ELSE "run"
    /\ UNCHANGED xResult
    /\ ExpandFrame

NextExpand ==
    \/ ReduceEnter
    \/ ReduceAppend
    \/ ReduceRecurse
    \/ IterateOverflow
    \/ ReduceOverflow
    \/ ReduceReturn

(* The interpreter keeps running the call it is in. *)
SpecExpand == InitExpand /\ [][NextExpand]_vars /\ WF_vars(NextExpand)

-----------------------------------------------------------------------------
(* Properties of Task.run, Scenario.run and the CLI commands. *)


(* Task i's run() has returned to its caller. *)
Returned(i) == pc = "done" \/ (pc = "run" /\ i < k)

UnitsOf(i) == 1..Len(threads[i])

RaisedIn(i) == {u \in UnitsOf(i) : threads[i][u].result = "raised"}

(* C1: fan-out isolation.  When run() of a Task has returned and the       *)
(* mutating call of exactly one of its units failed, every other unit has  *)
(* issued its call and is reported as a success, and the failing unit, and *)
(* only it, is reported as a failure.                                      *)
C1_FanOutIsolation ==
    \A i \in 1..Len(threads) :
        (Returned(i) /\ Cardinality(RaisedIn(i)) = 1) =>
            \A u \in UnitsOf(i) :
                IF u \in RaisedIn(i)
                THEN threads[i][u].report = "failed"
                ELSE threads[i][u].invoked = 1 /\ threads[i][u].report = "ok"

(* C2: completion barrier.  Once run() of a Task has returned, none of its *)
(* units is still running or not yet started.                              *)
C2_CompletionBarrier ==
    \A i \in 1..Len(threads) :
        Returned(i) => \A u \in UnitsOf(i) : Terminated(threads[i][u])

C2_Witness ==
    /\ Len(threads) >= 1
    /\ Returned(1)
    /\ Len(threads[1]) >= 2
    /\ \E u \in UnitsOf(1) : threads[1][u].report = "failed"
    /\ \E u \in UnitsOf(1) : threads[1][u].report = "ok"

(* C3: scenario ordering.  No unit of a later Task has started while a     *)
(* unit of an earlier Task is unfinished, and when Scenario.run has ended  *)
(* every Task has run all its units, whatever failed in the Tasks before   *)
(* it; the outcome of an earlier Task's units is then still in place.      *)
C3_ScenarioOrdering ==
    /\ \A i \in 1..Len(threads) : \A j \in 1..Len(threads) :
          (i < j /\ \E u \in UnitsOf(j) : threads[j][u].st # "new") =>
              \A v \in UnitsOf(i) : Terminated(threads[i][v])
    /\ \A i \in 1..Len(threads) :
          (pc = "run" /\ i > k) => \A u \in UnitsOf(i) : threads[i][u].st = "new"
    /\ pc = "done" =>
          \A i \in 1..Len(threads) : \A u \in UnitsOf(i) : Terminated(threads[i][u])

C3_Witness ==
    /\ pc = "done"
    /\ Len(threads) = 2
    /\ \E u \in UnitsOf(1) : threads[1][u].report = "failed"
    /\ Len(threads[2]) >= 2
    /\ \A u \in UnitsOf(2) : threads[2][u].report = "ok"

(* C4: bounded worker pool.  At no moment are more than PARALLEL_THREADS   *)
(* units of the running Task executing.                                    *)
C4_BoundedPool ==
    /\ \A i \in 1..Len(threads) :
          Cardinality({u \in UnitsOf(i) : Running(threads[i][u])}) <= PARALLEL_THREADS
    /\ BagCardinality(Those(pool, Running)) <= PARALLEL_THREADS

(* C5: unit cardinality.  Once run() of a Task has returned, the action of *)
(* the Task has been invoked exactly once for every target (Roll, ScaleUp, *)
(* ScaleDown) or for every pair of a target and a process of the list      *)
(* (Suspend, Unsuspend).                                                   *)
C5_UnitCardinality ==
    \A i \in 1..Len(threads) :
        /\ Len(threads[i]) =
              IF tasks[i].kind \in ProcessTaskKinds
              THEN tasks[i].ntargets * Len(tasks[i].processes)
              ELSE tasks[i].ntargets
        /\ \A u \in UnitsOf(i) : threads[i][u].invoked <= 1
        /\ Returned(i) => \A u \in UnitsOf(i) : threads[i][u].invoked = 1

(* C6: approval gate.  A unit has started, or a mutating call has been     *)
(* issued, only after --auto-approve or an affirmative answer; after a     *)
(* negative answer the command has ended and no unit has ever started.     *)
C6_ApprovalGate ==
    /\ (\E i \in 1..Len(threads) : \E u \in UnitsOf(i) :
            threads[i][u].st # "new" \/ threads[i][u].invoked > 0) =>
          \/ (auto_approve /\ approval = "auto")
          \/ (~auto_approve /\ approval = "yes")
    /\ approval = "no" =>
          /\ pc = "aborted"
          /\ \A i \in 1..Len(threads) : \A u \in UnitsOf(i) : threads[i][u] = NewThread

C6_Witness ==
    /\ approval = "yes"
    /\ \E i \in 1..Len(threads) : \E u \in UnitsOf(i) : threads[i][u].invoked = 1

-----------------------------------------------------------------------------
(* Properties of the configuration loader and of Task construction. *)

(* C7: configuration errors are fatal.  When the command goes on with the  *)
(* configuration it was given, no exception was raised while the           *)
(* providers, sources or scenarios were built; a process that ended after  *)
(* such an exception did so with a non-zero status.                        *)
C7_ConfigErrorsFatal ==
    /\ cpc = "continue" => errors = {}
    /\ (cpc = "exit" /\ errors # {}) => exitCode # 0

(* C8: kind dispatch.  Every construction Task(kind=k, ...) gave the class *)
(* registered for k when k is one of the five kinds, and otherwise gave no *)
(* Task and ended in SystemExit(1).                                        *)
C8_KindDispatch ==
    \A c \in constructed :
        /\ c.kind = "roll" => (c.cls = "RollTask" /\ c.exc = NoExc)
        /\ c.kind = "upscale" => (c.cls = "UpscaleTask" /\ c.exc = NoExc)
        /\ c.kind = "downscale" => (c.cls = "DownscaleTask" /\ c.exc = NoExc)
        /\ c.kind = "suspend" => (c.cls = "SuspendTask" /\ c.exc = NoExc)
        /\ c.kind = "unsuspend" => (c.cls = "UnsuspendTask" /\ c.exc = NoExc)
        /\ c.kind \notin {"roll", "upscale", "downscale", "suspend", "unsuspend"} =>
              (c.cls = "none" /\ c.exc = [type |-> "SystemExit", code |-> 1])

C8_Witness ==
    /\ \E c \in constructed : c.kind = "downscal" /\ c.exc.type = "SystemExit"
    /\ \E c \in constructed : c.kind = "roll" /\ c.cls = "RollTask"

-----------------------------------------------------------------------------
(* Properties of target resolution. *)

(* The depth-first, left-to-right flattening: an alias name stands for the  *)
(* flattening of its target list, any other string for itself.              *)
RECURSIVE DepthFirst(_, _)
RECURSIVE DepthFirstAll(_, _)
DepthFirstAll(nodes, als) ==
    IF nodes = <<>>
      THEN <<>>
      ELSE DepthFirst(Head(nodes), als) \o DepthFirstAll(Tail(nodes), als)

DepthFirst(node, als) ==
    IF node.str
      THEN IF node.s \in DOMAIN als
             THEN DepthFirstAll(als[node.s].targets, als)
             ELSE <<node.s>>
      ELSE DepthFirstAll(node.kids, als)

ResolutionRan == rpc \in {"resolved", "raised"}

(* C9: the patterns handed to the directory lookup are the depth-first,     *)
(* left-to-right flattening of the tokens, each alias name replaced in      *)
(* place by the flattening of its target list and every other string kept;  *)
(* ["a", ["b", ["c"]], "d"] gives a, b, c, d and ["testB"] gives            *)
(* a, b, c, d, e under testA = [a, b, c], testB = [testA, d, e].            *)
C9_AliasFlattening ==
    ResolutionRan =>
        /\ query = DepthFirst(targets, aliases)
        /\ targets = NestedTokens =>
               query = <<<<"a">>, <<"b">>, <<"c">>, <<"d">>>>
        /\ (targets = TestTokens /\ aliases = TestAliases) =>
               query = <<<<"a">>, <<"b">>, <<"c">>, <<"d">>, <<"e">>>>

(* A nested alias was expanded in place. *)
C9_Witness ==
    /\ rpc = "resolved"
    /\ targets = TestTokens
    /\ aliases = TestAliases
    /\ query = <<<<"a">>, <<"b">>, <<"c">>, <<"d">>, <<"e">>>>

(* The patterns of the inputs that re.compile(p, re.IGNORECASE | re.ASCII)  *)
(* of Python 3.11 raises re.error on.                                       *)
Uncompilable == {<<"(", "a">>, <<"a", ")">>}

(* The names among ShortNames, and for the queries of the test among the    *)
(* names of its listing, in which regex.search of Python 3.11 finds the     *)
(* compiled pattern.                                                        *)
ShortNames == GroupNames \cup {<<"b", "\n">>}

TestNames == {TestListing[i].name : i \in DOMAIN TestListing}

Searches ==
    (<<"a", "b">> :> {<<"a", "b">>, <<"A", "b">>})
      @@ (<<"b", "$">> :> {<<"a", "b">>, <<"A", "b">>, <<"b", "\n">>})
      @@ (<<".", "b">> :> {<<"a", "b">>, <<"A", "b">>})
      @@ (<<"x">> :> {<<"x">>})
      @@ (<<"y">> :> {})
      @@ (<<"(", "a", ")">> :> {<<"a", "b">>, <<"A", "b">>, <<"b", "a">>, <<"(", "a">>})
      @@ (<<"a">> :> {<<"a", "b">>, <<"A", "b">>, <<"b", "a">>, <<"(", "a">>})
      @@ (<<"b">> :> {<<"a", "b">>, <<"A", "b">>, <<"b", "$">>, <<"b", "a">>, <<"b", "\n">>})
      @@ (<<"c">> :> {})
      @@ (<<"d">> :> {})
      @@ (<<"e">> :> {})
      @@ (<<"t", "e", "s", "t", "A">> :> {})
      @@ (<<"t", "e", "s", "t", "B">> :> {})
      @@ (GroupedQuery :> {TestListing[1].name, TestListing[3].name})
      @@ (NameQuery :> {TestListing[5].name})
      @@ (ShortQuery :> {TestListing[1].name, TestListing[2].name, TestListing[5].name})

(* The pairs of a pattern and a name that Uncompilable and Searches cover. *)
Covered(p, name) ==
    \/ p \in Uncompilable
    \/ p \in DOMAIN Searches
         /\ IF p \in TestQueries THEN name \in TestNames ELSE name \in ShortNames

(* A directory name matches a pattern exactly, as a substring, or by a      *)
(* case-insensitive regex search.                                           *)
Matches(p, name) ==
    \/ ExactMatch(p, name)
    \/ SubstringMatch(p, name)
    \/ p \in DOMAIN Searches /\ name \in Searches[p]

(* The ids test_finds_elastigroups expects for each of its queries. *)
TestFinds ==
    (GroupedQuery :> {"sig-00000001", "sig-00000003"})
      @@ (NameQuery :> {"sig-00000005"})
      @@ (ShortQuery :> {"sig-00000001", "sig-00000002", "sig-00000005"})

(* The id the listing gives a name: that of the last group so named. *)
ListedId(name) ==
    remote[CHOOSE i \in DOMAIN remote :
               /\ remote[i].name = name
               /\ \A j \in (i + 1)..Len(remote) : remote[j].name # name].id

ListedNames == {remote[i].name : i \in DOMAIN remote}

Held(name) == \E i \in DOMAIN resolved : resolved[i].id = ListedId(name)

(* C10: a resolved list holds a handle for a directory name exactly when    *)
(* at least one flattened pattern matches that name, and every handle       *)
(* carries the id the directory listing maps its name to; the queries of    *)
(* test_finds_elastigroups resolve to the ids the test expects.             *)
C10_ResolutionIsUnionOfMatches ==
    rpc = "resolved" =>
        /\ \A name \in ListedNames : \A i \in DOMAIN query : Covered(query[i], name)
        /\ \A name \in ListedNames :
               Held(name) <=> \E i \in DOMAIN query : Matches(query[i], name)
        /\ \A i \in DOMAIN resolved :
               \E name \in ListedNames : resolved[i].id = ListedId(name)
        /\ (remote = TestListing /\ targets.str) =>
               {resolved[i].id : i \in DOMAIN resolved} = TestFinds[targets.s]

(* Two patterns select one of two listed groups by a match that is not     *)
(* exact and leave the other group out.                                     *)
C10_Witness ==
    /\ rpc = "resolved"
    /\ Len(query) = 2
    /\ Len(resolved) = 1
    /\ Cardinality(ListedNames) = 2
    /\ \E name \in ListedNames :
           /\ Held(name)
           /\ \E i \in DOMAIN query :
                  /\ Matches(query[i], name)
                  /\ ~ExactMatch(query[i], name)
    /\ \E name \in ListedNames : ~Held(name)

(* The ids of the remote groups, each held at most once. *)
HeldOnce == \A i, j \in DOMAIN resolved : resolved[i].id = resolved[j].id => i = j

(* C11 as stated: whichever TargetList resolves, the resolved list holds at *)
(* most one handle per remote group.                                        *)
C11_DeduplicatedTargets ==
    rpc = "resolved" => HeldOnce

(* Number of patterns of the query that match the name. *)
MatchCount(name) == Cardinality({i \in DOMAIN query : Matches(query[i], name)})

HandleCount(name) == Cardinality({i \in DOMAIN resolved : resolved[i].id = ListedId(name)})

(* C11, amended: the TargetList the CLI uses, which resolves the whole      *)
(* pattern list in one find call, holds at most one handle per remote       *)
(* group; the legacy TargetList, which calls find once per pattern and      *)
(* appends, holds a group once for every pattern that matches its name.     *)
C11_DeduplicatedTargetsAmended ==
    rpc = "resolved" =>
        /\ \A name \in ListedNames : \A i \in DOMAIN query : Covered(query[i], name)
        /\ impl = "cli" => HeldOnce
        /\ impl = "legacy" =>
               \A name \in ListedNames : HandleCount(name) = MatchCount(name)

(* An alias and a literal of the CLI's list match the same group, which is *)
(* held once.                                                               *)
C11_Witness ==
    /\ rpc = "resolved"
    /\ impl = "cli"
    /\ Len(targets.kids) = 2
    /\ \E i \in DOMAIN targets.kids :
           targets.kids[i].str /\ targets.kids[i].s \in DOMAIN aliases
    /\ \E name \in ListedNames : MatchCount(name) >= 2 /\ HandleCount(name) = 1

(* The directory snapshot: the names and ids of the first listing. *)
SnapshotNames == {listed[i].name : i \in DOMAIN listed}

SnapshotId(name) ==
    listed[CHOOSE i \in DOMAIN listed :
               /\ listed[i].name = name
               /\ \A j \in (i + 1)..Len(listed) : listed[j].name # name].id

(* The list holds a handle for exactly the matched names of the snapshot,   *)
(* with their ids of then.                                                  *)
ResolvedAgainstSnapshot ==
    /\ \A name \in SnapshotNames : \A i \in DOMAIN query : Covered(query[i], name)
    /\ \A name \in SnapshotNames :
           (\E i \in DOMAIN resolved : resolved[i].id = SnapshotId(name))
               <=> \E i \in DOMAIN query : Matches(query[i], name)
    /\ \A i \in DOMAIN resolved :
           \E name \in SnapshotNames : resolved[i].id = SnapshotId(name)

(* C12 as stated: the groups are listed at most once in a process, by the   *)
(* first find, and every find resolves against that first listing, whatever *)
(* the remote set of groups has become.                                     *)
C12_DirectorySnapshot ==
    /\ listCalls <= 1
    /\ rpc = "resolved" => ResolvedAgainstSnapshot

(* C12, amended: a find of a process that has no snapshot lists the groups; *)
(* a listing that raises fails the find and leaves no snapshot, so that the *)
(* next find lists again; the first listing that is answered is the         *)
(* snapshot, after it no find lists again or replaces it, and every find    *)
(* resolves against it, whatever the remote set of groups has become.       *)
C12_DirectorySnapshotAmended ==
    /\ [](elastigroups.set => elastigroups.map = Directory(listed))
    /\ [](rpc = "resolved" => elastigroups.set /\ ResolvedAgainstSnapshot)
    /\ [][elastigroups.set =>
              listCalls' = listCalls /\ elastigroups' = elastigroups /\ listed' = listed]_vars
    /\ [][(~elastigroups.set /\ rpc = "start" /\ rpc' # "start") =>
              /\ listCalls' = listCalls + 1
              /\ elastigroups'.set => listed' = remote
              /\ ~elastigroups'.set => rpc' = "raised" /\ resolved' = <<>>]_vars

(* A first list failed on its listing, a second listed again and resolved,  *)
(* and a third was resolved after a group its pattern matches had been      *)
(* created: the group is not in the list.                                   *)
C12_Witness ==
    /\ rpc = "resolved"
    /\ lists = 3
    /\ listCalls = 2
    /\ Len(remote) = Len(listed) + 1
    /\ \E i \in DOMAIN query : Matches(query[i], remote[Len(remote)].name)
    /\ \A i \in DOMAIN resolved : resolved[i].id # remote[Len(remote)].id

-----------------------------------------------------------------------------
(* Properties of the Elastigroup handle. *)

ScaleOps == {"scale_up", "scale_down"}

ScaleApis == {"scale_elastigroup_up", "scale_elastigroup_down"}

ScaleApi(name) ==
    IF name = "scale_up" THEN "scale_elastigroup_up" ELSE "scale_elastigroup_down"

(* The calls of the last method other than the read of the descriptor. *)
CallsBesidesFetch ==
    SelectSeq(gCalls, LAMBDA c : c.api # "get_elastigroup")

(* The last method was given a percentage "p%", p a decimal number. *)
IsPercentage(x) ==
    /\ x.py = "str"
    /\ HasPercent(x.text)
    /\ IntOfStr(StripPercent(x.text)).exc = NoExc

Percent(x) == IntOfStr(StripPercent(x.text)).value

(* a / b truncated to an integer, for b > 0. *)
Truncated(a, b) == IF a < 0 THEN 0 - ((0 - a) \div b) ELSE a \div b

(* The last method was given an absolute count: an int or a decimal str. *)
IsAbsolute(x) ==
    /\ x.py \in {"int", "str"}
    /\ ~HasPercent(x.text)
    /\ IntOf(x).exc = NoExc

(* C13: stale descriptor.  The descriptor is read from the service at most  *)
(* once, whatever methods are called on the handle the cache keeps what the *)
(* first read returned, capacity returns the capacity of that first read,   *)
(* and a percentage amount or an absolute roll batch is resolved against    *)
(* the target of that first read, not against the target the service has    *)
(* by then.                                                                 *)
C13_StaleDescriptor ==
    /\ gFetches <= 1
    /\ gCache.set = gFirst.set
    /\ gCache.set => gCache.data = gFirst.data
    /\ gOp.name = "capacity" => gRet.value = gFirst.data.capacity
    /\ gOp.name = "status" => gRet.value.capacity = gFirst.data.capacity
    /\ (gOp.name \in ScaleOps /\ IsPercentage(gOp.arg)) =>
           LET n == IntOfScaled(Percent(gOp.arg), 100, gFirst.data.capacity.target)
           IN CallsBesidesFetch =
                  IF n = 0 THEN <<>> ELSE <<[api |-> ScaleApi(gOp.name), arg |-> n]>>
    /\ (gOp.name = "roll" /\ IsAbsolute(gOp.arg) /\ Truthy(gOp.arg) /\ gRet.exc = NoExc) =>
           /\ Len(CallsBesidesFetch) = 1
           /\ CallsBesidesFetch[1].arg.batch_size_percentage =
                  IntOfScaled(IntOf(gOp.arg).value, gFirst.data.capacity.target, 100)

(* capacity has just returned the target of the first read while the        *)
(* service holds another target, changed by earlier methods of the handle.  *)
C13_Witness ==
    /\ gOp.name = "capacity"
    /\ gOps >= 2
    /\ gFirst.set
    /\ gRet.value.target = gFirst.data.capacity.target
    /\ gRemote.capacity.target # gFirst.data.capacity.target

(* The scale call a method issues for the absolute amount n: none for 0. *)
ScaleCallsFor(name, n) ==
    IF n = 0 THEN <<>> ELSE <<[api |-> ScaleApi(name), arg |-> n]>>

(* C14: percentage amount resolution.  scale_up("p%") and scale_down("p%")  *)
(* on a handle whose cached target is t issue exactly the scale call of the *)
(* absolute amount p * t / 100 truncated to an integer.                     *)
C14_PercentageAmount ==
    (gOp.name \in ScaleOps /\ IsPercentage(gOp.arg)) =>
        CallsBesidesFetch =
            ScaleCallsFor(gOp.name,
                          Truncated(Percent(gOp.arg) * gCache.data.capacity.target, 100))

(* C15: a zero amount is a no-op.  When the amount of scale_up or           *)
(* scale_down is 0, "0%" or a percentage below one instance of the cached   *)
(* target, the method returns without error and calls nothing that changes  *)
(* the group; otherwise it issues exactly one scale call.                   *)
C15_ZeroAmountNoOp ==
    (gOp.name \in ScaleOps /\ (IsPercentage(gOp.arg) \/ IsAbsolute(gOp.arg))) =>
        LET zero == IF IsPercentage(gOp.arg)
                      THEN Truncated(Percent(gOp.arg) * gCache.data.capacity.target, 100) = 0
                      ELSE IntOf(gOp.arg).value = 0
        IN /\ gRet.exc = NoExc
           /\ zero => CallsBesidesFetch = <<>>
           /\ ~zero => /\ Len(CallsBesidesFetch) = 1
                       /\ CallsBesidesFetch[1].api = ScaleApi(gOp.name)
                       /\ CallsBesidesFetch[1].arg # 0

(* scale_down was given a percentage that is less than one instance of the  *)
(* cached target and has returned without a scale call.                     *)
C15_Witness ==
    /\ gOp.name = "scale_down"
    /\ IsPercentage(gOp.arg)
    /\ Percent(gOp.arg) > 0
    /\ gCache.data.capacity.target > 0
    /\ CallsBesidesFetch = <<>>
    /\ gRet.exc = NoExc

(* C16: roll batch conversion.  A roll that returns has issued exactly one  *)
(* roll request; its batch size percentage is p for a batch "p%", b / t *   *)
(* 100 truncated to an integer for an absolute batch b and cached target t, *)
(* and 20 for an omitted batch; its grace period is 300 seconds for an      *)
(* omitted grace.                                                           *)
C16_RollBatchConversion ==
    (gOp.name = "roll" /\ gRet.exc = NoExc) =>
        /\ Len(CallsBesidesFetch) = 1
        /\ CallsBesidesFetch[1].api = "roll_group"
        /\ LET sent == CallsBesidesFetch[1].arg
               batch == gOp.arg
               grace == gOp.arg2
           IN /\ ~Truthy(batch) => sent.batch_size_percentage = 20
              /\ IsPercentage(batch) => sent.batch_size_percentage = Percent(batch)
              /\ (Truthy(batch) /\ IsAbsolute(batch)) =>
                     sent.batch_size_percentage =
                         Truncated(IntOf(batch).value * 100, gCache.data.capacity.target)
              /\ ~Truthy(grace) => sent.grace_period = 300

DiscreteApi(name) ==
    IF name = "suspend" THEN "suspend_process" ELSE "remove_suspended_process"

PolicyApi(name) ==
    IF name = "suspend" THEN "suspend_scaling_policies"
                        ELSE "resume_suspended_scaling_policies"

ConfiguredPolicies(process) ==
    IF process = "AUTO_SCALE_DOWN" THEN gRemote.down ELSE gRemote.up

(* C17: process/policy duality.  suspend and unsuspend of a discrete        *)
(* process issue exactly one suspend-process or remove-suspension call      *)
(* naming it and no policy call; of AUTO_SCALE_DOWN or AUTO_SCALE_UP they   *)
(* issue one suspend-policy or resume-policy call per policy configured in  *)
(* that direction and no discrete-process call.                             *)
C17_ProcessPolicyDuality ==
    gOp.name \in {"suspend", "unsuspend"} =>
        IF gOp.arg \in VirtualProcesses
          THEN CallsBesidesFetch =
                   [i \in DOMAIN ConfiguredPolicies(gOp.arg) |->
                       [api |-> PolicyApi(gOp.name), arg |-> ConfiguredPolicies(gOp.arg)[i]]]
          ELSE gCalls = <<[api |-> DiscreteApi(gOp.name), arg |-> gOp.arg]>>

(* What processes returned, alone or in the dictionary of status. *)
Reported == IF gOp.name = "status" THEN gRet.value.processes ELSE gRet.value

(* C18: status of processes.  processes, read alone or by status, reports   *)
(* "suspended" or "active" for every member of ElastigroupProcess: a        *)
(* discrete process is suspended iff the service lists it as suspended,     *)
(* AUTO_SCALE_DOWN and AUTO_SCALE_UP are suspended iff the service lists at *)
(* least one of the policies configured in that direction as suspended.     *)
C18_ProcessStatus ==
    gOp.name \in {"processes", "status"} =>
        /\ gRet.exc = NoExc
        /\ DOMAIN Reported = ElastigroupProcess
        /\ \A p \in ElastigroupProcess :
               /\ Reported[p] \in {"suspended", "active"}
               /\ Reported[p] = "suspended" <=>
                      IF p \in VirtualProcesses
                        THEN \E i \in DOMAIN ConfiguredPolicies(p) :
                                 ConfiguredPolicies(p)[i] \in gRemote.suspended_policies
                        ELSE p \in gRemote.suspended_processes

(* processes has reported AUTO_SCALE_DOWN as suspended with one of the two  *)
(* down policies suspended, AUTO_SCALE_UP as active, and AUTO_HEALING as    *)
(* suspended after a suspend call of this handle.                           *)
C18_Witness ==
    /\ gOp.name = "processes"
    /\ Len(gRemote.down) = 2
    /\ Cardinality(Range(gRemote.down) \cap gRemote.suspended_policies) = 1
    /\ gRet.value["AUTO_SCALE_DOWN"] = "suspended"
    /\ gRet.value["AUTO_SCALE_UP"] = "active"
    /\ gRet.value["AUTO_HEALING"] = "suspended"
    /\ gRet.value["SCHEDULING"] = "active"

-----------------------------------------------------------------------------
(* Properties of filter and of the resolution of malformed patterns. *)

(* A pattern that is no regular expression: re.compile raises on it. *)
Malformed(p) == p \in Uncompilable

(* C19: matching union law.  When every pattern of the query compiles, the  *)
(* result of filter for the whole query is the union of its results for     *)
(* each pattern alone and a subset of the candidates, and a pattern that    *)
(* matches no candidate gives the empty set, not an error.                  *)
C19_MatchingUnionLaw ==
    (fpc = "done" /\ \A i \in DOMAIN fQ : ~Malformed(fQ[i])) =>
        /\ \A i \in DOMAIN fQ : \A item \in fC : Covered(fQ[i], item)
        /\ fOut.exc = NoExc
        /\ \A i \in DOMAIN fQ : fParts[i].exc = NoExc
        /\ fOut.ret = UNION {fParts[i].ret : i \in DOMAIN fQ}
        /\ fOut.ret \subseteq fC
        /\ \A i \in DOMAIN fQ :
               (\A item \in fC : ~Matches(fQ[i], item)) => fParts[i].ret = {}

(* filter has run on two patterns each of which matches a candidate the     *)
(* other does not, and on other queries one of which matches nothing.       *)
C19_Witness ==
    /\ fpc = "done"
    /\ Len(fQ) = 2
    /\ fOut.exc = NoExc
    /\ fParts[1].ret \ fParts[2].ret # {}
    /\ fParts[2].ret \ fParts[1].ret # {}
    /\ fOut.ret # fC

(* C20: a malformed regex is an error.  When a pattern of the flattened     *)
(* query does not compile, filter raises, and the resolution raises too     *)
(* and holds no handle: neither those of the other patterns nor those of    *)
(* the full or substring matches of the malformed one.  Which patterns do   *)
(* not compile is what Python says of them: "(a" and "a)" do not, the group *)
(* "(a)" does.                                                              *)
C20_MalformedRegexIsError ==
    /\ ResolutionRan =>
           \A i \in DOMAIN query : query[i] \in Uncompilable \cup DOMAIN Searches
    /\ (ResolutionRan /\ \E i \in DOMAIN query : Malformed(query[i])) =>
           /\ fexc # NoExc
           /\ elastigroups.set => fexc.type = "re.error"
           /\ rpc = "raised"
           /\ rexc # NoExc
           /\ resolved = <<>>
    /\ (ResolutionRan /\ \A i \in DOMAIN query : ~Malformed(query[i])) =>
           fexc.type # "re.error"

(* A resolution has raised on a query that holds a malformed pattern that   *)
(* is the very name of a group, beside a pattern matching a group.          *)
C20_Witness ==
    /\ rpc = "raised"
    /\ \E i \in DOMAIN query : \E g \in DOMAIN remote :
           Malformed(query[i]) /\ query[i] = remote[g].name
    /\ \E i \in DOMAIN query : \E g \in DOMAIN remote :
           ~Malformed(query[i]) /\ Matches(query[i], remote[g].name)

-----------------------------------------------------------------------------
(* Properties of construction, of the shared descriptor cache and of the    *)
(* virtual processes.                                                       *)

(* C21: side-effect-free construction.  Constructing a TargetList and the   *)
(* Task that holds it lists no groups, reads no descriptor, issues no call  *)
(* on any handle and resolves nothing: the new list waits for its first     *)
(* read.                                                                    *)
C21_ConstructionIsSideEffectFree ==
    [][lists' = lists + 1 =>
          /\ listCalls' = listCalls
          /\ elastigroups' = elastigroups
          /\ remote' = remote
          /\ gFetches' = gFetches
          /\ gCalls' = gCalls
          /\ gRemote' = gRemote
          /\ rpc' = "start"
          /\ resolved' = <<>>]_vars

(* Two lists have been constructed and none has been read: the groups have  *)
(* not been listed.                                                         *)
C21_Witness ==
    /\ lists = 2
    /\ rpc = "start"
    /\ listCalls = 0
    /\ ~elastigroups.set
    /\ remote # <<>>

(* C22: the descriptor is fetched at most once.  Over the life of a handle  *)
(* get_elastigroup() is called at most once, however the threads of the     *)
(* units that share the handle interleave.                                  *)
C22_DescriptorFetchedAtMostOnce == gFetches <= 1

(* C23: already-suspended is not suppressed.  suspend of AUTO_SCALE_DOWN or *)
(* AUTO_SCALE_UP on a group one of whose policies of that direction is      *)
(* already suspended issues the suspend-policy call and hands the error of  *)
(* the service to its caller.                                               *)
C23_AlreadySuspendedPropagates ==
    (/\ gOp.name = "suspend"
     /\ gOp.arg \in VirtualProcesses
     /\ \E i \in DOMAIN ConfiguredPolicies(gOp.arg) :
            ConfiguredPolicies(gOp.arg)[i] \in gRemote.suspended_policies) =>
        /\ \E c \in DOMAIN gCalls : gCalls[c].api = "suspend_scaling_policies"
        /\ gRet.exc.type = "SpotinstClientException"

(* C24: no policies is not an error.  suspend and unsuspend of              *)
(* AUTO_SCALE_DOWN or AUTO_SCALE_UP on a group with no policy configured in *)
(* that direction issue no remote call and return without error.            *)
C24_NoPoliciesIsNotAnError ==
    (/\ gOp.name \in {"suspend", "unsuspend"}
     /\ gOp.arg \in VirtualProcesses
     /\ ConfiguredPolicies(gOp.arg) = <<>>) =>
        /\ gCalls = <<>>
        /\ gRet.exc = NoExc

-----------------------------------------------------------------------------
(* Properties of the units of work. *)

(* C25: an unknown process is fatal.  run() of a suspend or unsuspend Task  *)
(* that names a process outside ElastigroupProcess never returns normally:  *)
(* the invocation is aborted instead.                                       *)
C25_UnknownProcessIsFatal ==
    \A i \in 1..Len(threads) :
        Returned(i) =>
            \A u \in UnitsOf(i) :
                tasks[i].kind \in ProcessTaskKinds =>
                    Units(tasks[i])[u].process \in ElastigroupProcess

(* C26: faithful unit outcome.  A unit whose thread has ended reports       *)
(* success exactly when its action returned and failure exactly when its    *)
(* action raised, for str and int parameters alike.                         *)
C26_FaithfulUnitOutcome ==
    \A i \in 1..Len(threads) : \A u \in UnitsOf(i) :
        threads[i][u].st = "finished" =>
            /\ threads[i][u].report = "ok" <=> threads[i][u].result = "returned"
            /\ threads[i][u].report = "failed" <=> threads[i][u].result = "raised"

(* The position of a scenario's Tasks. *)
TaskIndexes == 1..2

(* A unit of Task i has sent a request to a target that never answers. *)
HungCall(i) ==
    \E u \in UnitsOf(i) :
        /\ Units(tasks[i])[u].target \in hung
        /\ threads[i][u].calls # <<>>

(* C28: termination of Task.run().  run() of a Task, once entered, either   *)
(* returns or comes to wait for a remote call that never returns: when      *)
(* every remote call of its units returns, normally or with an error, it    *)
(* returns.  It never returns while a remote call of one of its units does  *)
(* not return: nothing times out or is cancelled.                           *)
C28_TaskRunTerminates ==
    /\ \A i \in TaskIndexes :
           []((i <= Len(threads) /\ pc = "run" /\ k = i) =>
                 <>(i <= Len(threads) /\ (Returned(i) \/ HungCall(i))))
    /\ [](\A i \in 1..Len(threads) : Returned(i) => ~HungCall(i))

(* Both Tasks of a scenario have returned, a unit having failed and a       *)
(* thread having died on an unknown process.                                *)
C28_Witness ==
    /\ pc = "done"
    /\ Len(tasks) = 2
    /\ \E i \in 1..Len(threads) : \E u \in UnitsOf(i) : threads[i][u].report = "failed"
    /\ \E i \in 1..Len(threads) : \E u \in UnitsOf(i) : threads[i][u].st = "crashed"

(* The strings of a token structure. *)
RECURSIVE StringsOf(_)
StringsOf(node) ==
    IF node.str THEN {node.s} ELSE UNION {StringsOf(node.kids[i]) : i \in DOMAIN node.kids}

(* The alias names a token structure mentions, and those an alias mentions. *)
AliasRefs(node, als) == StringsOf(node) \cap DOMAIN als
AliasEdges(a, als) == AliasRefs(List(als[a].targets), als)

RECURSIVE AliasClosure(_, _, _)
AliasClosure(S, als, n) ==
    IF n = 0 THEN S
    ELSE AliasClosure(S \cup UNION {AliasEdges(a, als) : a \in S}, als, n - 1)

ReachableAliases ==
    AliasClosure(AliasRefs(targets, aliases), aliases, Cardinality(DOMAIN aliases))

(* An alias the tokens lead to leads back to itself. *)
CyclicReachable ==
    \E a \in ReachableAliases :
        a \in AliasClosure(AliasEdges(a, aliases), aliases, Cardinality(DOMAIN aliases))

(* The calls of reduce() nested in one another while a token structure is  *)
(* expanded under an acyclic table.                                         *)
RECURSIVE Nesting(_, _)
Nesting(node, als) ==
    LET items == IF node.str THEN als[node.s].targets ELSE node.kids
        inner == {Nesting(items[i], als) : i \in DOMAIN items}
    IN IF node.str /\ node.s \notin DOMAIN als THEN 0
       ELSE 1 + (IF inner = {} THEN 0 ELSE CHOOSE n \in inner : \A m \in inner : m <= n)

ReduceDepth ==
    IF targets.str /\ targets.s \notin DOMAIN aliases THEN 1
    ELSE IF targets.str THEN 1 + Nesting(targets, aliases)
    ELSE Nesting(targets, aliases)

(* What reduce() returns whenever it returns: the depth-first flattening,   *)
(* which holds no alias name, and only when no cyclic alias is reachable.   *)
ExpansionReturned ==
    xpc = "done" =>
        /\ ~CyclicReachable
        /\ \A i \in DOMAIN xResult : xResult[i] \notin DOMAIN aliases
        /\ xResult = reduce(targets, <<>>, aliases)

(* C29 as stated: when no cyclic alias is reachable from the tokens,        *)
(* reduce() returns, and the list it returns is the depth-first flattening  *)
(* and holds no alias name.  When a cyclic alias is reachable, reduce()     *)
(* recurses without bound: no depth limit ends it, it neither returns nor   *)
(* raises.                                                                  *)
C29_AliasExpansionTerminates ==
    /\ []ExpansionReturned
    /\ []((xpc = "start" /\ ~CyclicReachable) => <>(xpc = "done"))
    /\ [](CyclicReachable => xpc \notin {"done", "raised"})

(* C29, amended: reduce() has no guard of its own and is ended only by the  *)
(* interpreter, whose RecursionError comes when the calls, with the frames  *)
(* of the callers and those an Alias takes to be iterated, nest as deep as  *)
(* its stack allows.  When no cyclic alias is reachable from the tokens and *)
(* the calls nest less deep than that, reduce() returns, and the list it    *)
(* returns is the depth-first flattening and holds no alias name.  When a   *)
(* cyclic alias is reachable, reduce() never returns a list: it recurses    *)
(* until the stack is exhausted, and data raises.                           *)
C29_AliasExpansionAmended ==
    /\ []ExpansionReturned
    /\ []((/\ xpc = "start"
            /\ ~CyclicReachable
            /\ xFrames + ReduceDepth + IterationFrames <= RecursionLimit)
              => <>(xpc = "done"))
    /\ []((xpc = "start" /\ CyclicReachable) => <>(xpc = "raised"))
    /\ [][xpc' = "raised" =>
              /\ xFrames + Len(xStack) + IterationFrames > RecursionLimit
              /\ xFrames + Len(xStack) <= RecursionLimit]_vars

(* The expansion of an alias that names itself after a pattern has been     *)
(* ended by the interpreter in the iteration of the alias, with a pattern   *)
(* appended by every call but the first and the last.                       *)
C29_Witness ==
    /\ xpc = "raised"
    /\ CyclicReachable
    /\ xFrames + Len(xResult) + 1 + IterationFrames = RecursionLimit

(* The descriptor the handle holds has target capacity 0. *)
EmptyGroup == gCache.set /\ gCache.data.capacity.target = 0

RollRequests == SelectSeq(gCalls, LAMBDA c : c.api = "roll_group")

(* C30: roll on an empty group.  On a handle whose cached target capacity   *)
(* is 0, roll with an absolute batch raises before any roll request is      *)
(* issued, and work() of a Roll task turns that into the failure of its     *)
(* unit; roll with a percentage batch, or with none, issues its one roll    *)
(* request.                                                                 *)
C30_RollOnEmptyGroup ==
    (gOp.name = "roll" /\ EmptyGroup) =>
        /\ (Truthy(gOp.arg) /\ IsAbsolute(gOp.arg)) =>
               /\ gRet.exc = PyExc("ZeroDivisionError")
               /\ RollRequests = <<>>
               /\ AmountWork(gOp.arg, gRet.exc # NoExc).st = "finished"
               /\ AmountWork(gOp.arg, gRet.exc # NoExc).report = "failed"
        /\ (IsPercentage(gOp.arg) \/ ~Truthy(gOp.arg)) =>
               /\ gRet.exc = NoExc
               /\ Len(RollRequests) = 1

(* An absolute batch has been rolled on a handle with cached target 0. *)
C30_Witness ==
    /\ gOp.name = "roll"
    /\ EmptyGroup
    /\ Truthy(gOp.arg) /\ IsAbsolute(gOp.arg)
    /\ gRet.exc.type = "ZeroDivisionError"


=========================================================================
